---- MODULE Spec2Model ----
(***************************************************************************)
(* Channel routing, cooldown tracking and retry orchestration of done-hub: *)
(* model/balancer.go (ChannelsChooser) and relay (Relay, RelayHandler,     *)
(* shouldCooldowns, GetProvider, shouldRetry).                             *)
(*                                                                         *)
(* Model names are sequences of one-character strings so that key          *)
(* formatting, trimming and matching are computed, not assumed.            *)
(***************************************************************************)
EXTENDS Integers, Sequences, FiniteSets, TLC

VARIABLES
    now,        \* time.Now().Unix()
    Cooldowns,  \* ChannelsChooser.Cooldowns (sync.Map): key -> expiry
    Channels,   \* ChannelsChooser.Channels: id -> ChannelChoice
    Rule,       \* ChannelsChooser.Rule: group -> model -> tiers
    Match,      \* ChannelsChooser.Match: wildcard patterns
    ModelGroup, \* ChannelsChooser.ModelGroup: model -> set of groups
    db,         \* the channels table read by Load
    sticky,     \* the sticky-session store (redis): channel type -> channel id
    call,       \* the last completed call of the sequential API: its arguments and result
    track,      \* per key, the last SetCooldownsWithDuration that stored an expiry
    setter,     \* per setter goroutine: position and locals of SetCooldownsWithDuration
    sweep,      \* the background goroutine running CleanupExpiredCooldowns
    lock,       \* ChannelsChooser.RWMutex: readers holding RLock, writer holding Lock
    loader,     \* the goroutine running Load: position and the maps it built
    reader,     \* per reader goroutine: position and what it has read so far
    config,     \* the settings of package config read by the code
    rq          \* the request handled by Relay: gin context keys and locals

vars == <<now, Cooldowns, Channels, Rule, Match, ModelGroup, db, sticky, call,
          track, setter, sweep, lock, loader, reader, config, rq>>

registryVars == <<Channels, Rule, Match, ModelGroup, db>>
cooldownProcVars == <<setter, sweep>>
loadProcVars == <<lock, loader, reader>>

-----------------------------------------------------------------------------
(* Bounds of the model *)

MaxTime == 3
MaxDuration == 2
NumSetters == 2
NumChannels == 3
NumReaders == 1
NumLoadChannels == 2
MaxLoads == 2

-----------------------------------------------------------------------------
(* Plain helpers *)

Min(a, b) == IF a < b THEN a ELSE b

Range(s) == {s[i] : i \in 1..Len(s)}

\* utils.Contains(value, slice)
Contains(x, s) == \E i \in 1..Len(s) : s[i] = x

NoValue == "none"

\* strconv of a non-negative int, as the %d verb prints it
RECURSIVE Itoa(_)
Itoa(n) ==
    LET digit == <<"0", "1", "2", "3", "4", "5", "6", "7", "8", "9">>
    IN  IF n < 10 THEN <<digit[n + 1]>> ELSE Itoa(n \div 10) \o <<digit[(n % 10) + 1]>>

-----------------------------------------------------------------------------
(* Cooldown tracker: model/balancer.go 92-149 *)

\* A variant that formats the channel id only.
CooldownKeyPerChannel(channelId, modelName) == Itoa(channelId) \o <<":">>

\* fmt.Sprintf("%d:%s", channelId, modelName)
CooldownKey(channelId, modelName) == Itoa(channelId) \o <<":">> \o modelName

\* sync.Map.LoadOrStore
LoadOrStore(m, key, value) ==
    IF key \in DOMAIN m
    THEN [map |-> m, actual |-> m[key], loaded |-> TRUE]
    ELSE [map |-> [k \in DOMAIN m \cup {key} |-> IF k = key THEN value ELSE m[k]],
          actual |-> value, loaded |-> FALSE]

\* sync.Map.CompareAndSwap
CompareAndSwap(m, key, old, new) ==
    IF key \in DOMAIN m /\ m[key] = old
    THEN [k \in DOMAIN m |-> IF k = key THEN new ELSE m[k]]
    ELSE m

\* sync.Map.Delete
Delete(m, key) == [k \in DOMAIN m \ {key} |-> m[k]]

\* the argument check that opens SetCooldownsWithDuration
SetCooldownsRejects(channelId, modelName, durationSeconds) ==
    channelId = 0 \/ modelName = <<>> \/ durationSeconds = 0

\* the branch taken after LoadOrStore: TRUE when the CompareAndSwap is attempted
SetCooldownsExtends(r, nowTime) == r.loaded /\ ~(nowTime < r.actual)

\* A variant that overwrites an entry that is still active.
SetCooldownsWithDurationOverwrite(m, channelId, modelName, durationSeconds, nowTime) ==
    IF SetCooldownsRejects(channelId, modelName, durationSeconds)
    THEN [ok |-> FALSE, map |-> m]
    ELSE LET key == CooldownKey(channelId, modelName)
             r == LoadOrStore(m, key, nowTime + durationSeconds)
         IN  [ok |-> TRUE,
              map |-> CompareAndSwap(r.map, key, r.actual, nowTime + durationSeconds)]

\* ChannelsChooser.SetCooldownsWithDuration as one uninterrupted call at time nowTime
SetCooldownsWithDuration(m, channelId, modelName, durationSeconds, nowTime) ==
    IF SetCooldownsRejects(channelId, modelName, durationSeconds)
    THEN [ok |-> FALSE, map |-> m]
    ELSE LET key == CooldownKey(channelId, modelName)
             newCooldownTime == nowTime + durationSeconds
             r == LoadOrStore(m, key, newCooldownTime)
         IN  IF SetCooldownsExtends(r, nowTime)
             THEN [ok |-> TRUE,
                   map |-> CompareAndSwap(r.map, key, r.actual, newCooldownTime)]
             ELSE [ok |-> TRUE, map |-> r.map]

\* ChannelsChooser.SetCooldowns: the configured default duration
SetCooldowns(m, channelId, modelName, nowTime, cfg) ==
    SetCooldownsWithDuration(m, channelId, modelName, cfg.RetryCooldownSeconds, nowTime)

\* A variant that compares with <= instead of <.
IsInCooldownInclusive(m, channelId, modelName, nowTime) ==
    /\ channelId # 0
    /\ modelName # <<>>
    /\ CooldownKey(channelId, modelName) \in DOMAIN m
    /\ nowTime <= m[CooldownKey(channelId, modelName)]

\* ChannelsChooser.IsInCooldown
IsInCooldown(m, channelId, modelName, nowTime) ==
    IF channelId = 0 \/ modelName = <<>>
    THEN FALSE
    ELSE LET key == CooldownKey(channelId, modelName)
         IN  IF key \notin DOMAIN m THEN FALSE ELSE nowTime < m[key]

\* the test CleanupExpiredCooldowns applies to each entry it visits
SweepExpired(nowTime, value) == nowTime >= value

\* ChannelsChooser.CleanupExpiredCooldowns as one uninterrupted call
CleanupExpiredCooldowns(m, nowTime) ==
    [k \in {x \in DOMAIN m : ~SweepExpired(nowTime, m[x])} |-> m[k]]

-----------------------------------------------------------------------------
(* Strings as sequences of characters *)

\* strings.TrimSpace
RECURSIVE TrimLeft(_)
TrimLeft(s) == IF s # <<>> /\ Head(s) = " " THEN TrimLeft(Tail(s)) ELSE s

RECURSIVE TrimRight(_)
TrimRight(s) ==
    IF s # <<>> /\ s[Len(s)] = " " THEN TrimRight(SubSeq(s, 1, Len(s) - 1)) ELSE s

TrimSpace(s) == TrimRight(TrimLeft(s))

\* strings.Split(s, ","): the fields between the commas, empty fields included
RECURSIVE SplitComma(_)
SplitComma(s) ==
    IF \A i \in 1..Len(s) : s[i] # ","
    THEN <<s>>
    ELSE LET i == CHOOSE j \in 1..Len(s) : s[j] = "," /\ \A k \in 1..(j - 1) : s[k] # ","
         IN  <<SubSeq(s, 1, i - 1)>> \o SplitComma(SubSeq(s, i + 1, Len(s)))

\* strings.HasSuffix(model, "*")
HasSuffixStar(s) == s # <<>> /\ s[Len(s)] = "*"

\* the trimmed, non-empty fields of a comma-separated column, in order
RECURSIVE NonEmpty(_)
NonEmpty(fields) ==
    IF fields = <<>> THEN <<>>
    ELSE (IF TrimSpace(Head(fields)) = <<>> THEN <<>> ELSE <<TrimSpace(Head(fields))>>)
         \o NonEmpty(Tail(fields))

Fields(column) == NonEmpty(SplitComma(column))

\* how often x occurs in the sequence s
RECURSIVE Occurrences(_, _)
Occurrences(x, s) ==
    IF s = <<>> THEN 0 ELSE (IF Head(s) = x THEN 1 ELSE 0) + Occurrences(x, Tail(s))

\* n copies of x
RECURSIVE Repeat(_, _)
Repeat(x, n) == IF n = 0 THEN <<>> ELSE <<x>> \o Repeat(x, n - 1)

-----------------------------------------------------------------------------
(* Channel registry: model/balancer.go 838-943 *)

ChannelStatusEnabled == "enabled"
ChannelStatusDisabled == "disabled"

\* config.ChannelType* tags that matter to routing: only the session-affine ones
\* derive a session hash (generateSessionHashForChannel)
ChannelTypeOpenAI == "openai"
ChannelTypeClaudeCode == "claudecode"

\* the rows Load reads: DB.Where("status = ?", ChannelStatusEnabled).Find(&channels)
EnabledRows(table) == SelectSeq(table, LAMBDA row : row.Status = ChannelStatusEnabled)

\* A variant that keeps a configured weight of 0.
NormalizeWeightKeepZero(row, defaultWeight) == row

\* the weight normalisation of Load: 0 becomes config.DefaultChannelWeight
NormalizeWeight(row, defaultWeight) ==
    IF row.Weight = 0 THEN [row EXCEPT !.Weight = defaultWeight] ELSE row

\* newChannels of Load
LoadChannels(rows, defaultWeight) ==
    [id \in {rows[i].Id : i \in 1..Len(rows)} |->
        LET row == rows[CHOOSE i \in 1..Len(rows) :
                           rows[i].Id = id /\ \A j \in (i + 1)..Len(rows) : rows[j].Id # id]
        IN  [Channel |-> NormalizeWeight(row, defaultWeight), Disable |-> FALSE]]

\* channelGroups[{group, model}][priority] of Load: the ids appended in row order, a
\* channel once for every time it names the group and the model
RECURSIVE PriorityBucket(_, _, _, _)
PriorityBucket(rows, group, model, priority) ==
    IF rows = <<>> THEN <<>>
    ELSE LET row == Head(rows)
             n == IF row.Priority = priority
                  THEN Occurrences(group, Fields(row.Group)) * Occurrences(model, Fields(row.Models))
                  ELSE 0
         IN  Repeat(row.Id, n) \o PriorityBucket(Tail(rows), group, model, priority)

\* A variant that sorts the priorities ascending.
RECURSIVE SortAscending(_)
SortAscending(S) ==
    IF S = {} THEN <<>>
    ELSE LET lo == CHOOSE x \in S : \A y \in S : x <= y
         IN  <<lo>> \o SortAscending(S \ {lo})

\* sort.Slice(priorities, func(i, j) bool { return priorities[i] > priorities[j] })
RECURSIVE SortDescending(_)
SortDescending(S) ==
    IF S = {} THEN <<>>
    ELSE LET hi == CHOOSE x \in S : \A y \in S : x >= y
         IN  <<hi>> \o SortDescending(S \ {hi})

RowsGroups(rows) == UNION {Range(Fields(rows[i].Group)) : i \in 1..Len(rows)}
RowsModels(rows) == UNION {Range(Fields(rows[i].Models)) : i \in 1..Len(rows)}

\* the priorities under which some channel was stored for (group, model)
KeyPriorities(rows, group, model) ==
    {rows[i].Priority : i \in {j \in 1..Len(rows) :
        group \in Range(Fields(rows[j].Group)) /\ model \in Range(Fields(rows[j].Models))}}

\* newGroup of Load: group -> model -> tiers in descending priority
LoadRule(rows) ==
    [group \in RowsGroups(rows) |->
        [model \in {m \in RowsModels(rows) : KeyPriorities(rows, group, m) # {}} |->
            LET priorities == SortDescending(KeyPriorities(rows, group, model))
            IN  [t \in 1..Len(priorities) |-> PriorityBucket(rows, group, model, priorities[t])]]]

\* newMatch of Load: the models ending in "*"
LoadMatch(rows) == {m \in RowsModels(rows) : HasSuffixStar(m)}

\* newModelGroup of Load
LoadModelGroup(rows) ==
    [model \in RowsModels(rows) |->
        {g \in RowsGroups(rows) : KeyPriorities(rows, g, model) # {}}]

\* the four maps Load builds before it takes the lock
LoadBuild(table, defaultWeight) ==
    LET rows == EnabledRows(table)
    IN  [Rule |-> LoadRule(rows),
         Channels |-> LoadChannels(rows, defaultWeight),
         Match |-> LoadMatch(rows),
         ModelGroup |-> LoadModelGroup(rows)]

-----------------------------------------------------------------------------
(* Filters: model/balancer.go 56-80 *)

\* Channel.AllowStream(modelName)
AllowStream(row, modelName) == modelName \notin row.NoStream

\* a ChannelsFilterFunc applied to (channelId, choice): TRUE rejects the channel
FilterRejects(filter, channelId, choice) ==
    CASE filter.kind = "FilterChannelId" -> Contains(channelId, filter.ids)
      [] filter.kind = "FilterChannelTypes" -> ~Contains(choice.Channel.Type, filter.types)
      [] filter.kind = "FilterOnlyChat" -> choice.Channel.OnlyChat
      [] filter.kind = "FilterDisabledStream" -> ~AllowStream(choice.Channel, filter.model)

\* the filter loop of balancer, countValidChannels and checkStickySession
IsSkip(filters, channelId, choice) ==
    \E i \in 1..Len(filters) : FilterRejects(filters[i], channelId, choice)

-----------------------------------------------------------------------------
(* Sticky sessions: model/balancer.go 180-362 *)

\* the nil ginContext
NilContext == [isNil |-> TRUE]

\* generateSessionHashForChannel: only the session-affine types derive a hash from the
\* request
generateSessionHashForChannel(row, ginContext) ==
    IF ginContext.isNil THEN ""
    ELSE IF row.Type = ChannelTypeClaudeCode THEN ginContext.sessionHash
    ELSE ""

\* redis.GetStickySessionMapping: the mapped id, or 0 on a miss or an error
GetStickySessionMapping(store, sessionHash, channelType, o) ==
    IF o.getOk /\ <<sessionHash, channelType>> \in DOMAIN store
    THEN store[<<sessionHash, channelType>>] ELSE 0

\* redis.DeleteStickySessionMapping
DeleteStickySessionMapping(store, sessionHash, channelType) ==
    [k \in DOMAIN store \ {<<sessionHash, channelType>>} |-> store[k]]

\* redis.SetStickySessionMapping
SetStickySessionMapping(store, sessionHash, channelId, channelType, o) ==
    IF o.setOk
    THEN [k \in DOMAIN store \cup {<<sessionHash, channelType>>} |->
            IF k = <<sessionHash, channelType>> THEN channelId ELSE store[k]]
    ELSE store

\* A variant that returns the mapped channel without applying the filters.
checkStickySessionNoFilter(channelIds, filters, modelName, ginContext, st, o) ==
    LET miss == [channel |-> 0, sticky |-> st.sticky]
    IN  IF ~st.config.RedisEnabled \/ ginContext.isNil \/ Len(channelIds) = 0 THEN miss
        ELSE IF channelIds[1] \notin DOMAIN st.Channels THEN miss
        ELSE LET firstChoice == st.Channels[channelIds[1]]
                 sessionHash == generateSessionHashForChannel(firstChoice.Channel, ginContext)
                 channelType == firstChoice.Channel.Type
                 mapped == GetStickySessionMapping(st.sticky, sessionHash, channelType, o)
             IN  IF sessionHash = "" \/ mapped <= 0 \/ mapped \notin DOMAIN st.Channels
                 THEN miss
                 ELSE [channel |-> mapped, sticky |-> st.sticky]

\* A variant that does not ask whether the mapped channel is cooling down.
checkStickySessionNoCooldown(channelIds, filters, modelName, ginContext, st, o) ==
    LET miss == [channel |-> 0, sticky |-> st.sticky]
    IN  IF ~st.config.RedisEnabled \/ ginContext.isNil \/ Len(channelIds) = 0 THEN miss
        ELSE IF channelIds[1] \notin DOMAIN st.Channels THEN miss
        ELSE LET firstChoice == st.Channels[channelIds[1]]
                 sessionHash == generateSessionHashForChannel(firstChoice.Channel, ginContext)
                 channelType == firstChoice.Channel.Type
                 mapped == GetStickySessionMapping(st.sticky, sessionHash, channelType, o)
                 dropped == [channel |-> 0,
                             sticky |-> DeleteStickySessionMapping(st.sticky, sessionHash, channelType)]
             IN  IF sessionHash = "" THEN miss
                 ELSE IF mapped <= 0 THEN miss
                 ELSE IF mapped \notin DOMAIN st.Channels \/ st.Channels[mapped].Disable THEN dropped
                 ELSE IF ~Contains(mapped, channelIds) THEN dropped
                 ELSE IF IsSkip(filters, mapped, st.Channels[mapped]) THEN dropped
                 ELSE [channel |-> mapped, sticky |-> st.sticky]

\* ChannelsChooser.checkStickySession: the mapped channel (0 for nil) and the store after
checkStickySession(channelIds, filters, modelName, ginContext, st, o) ==
    LET miss == [channel |-> 0, sticky |-> st.sticky]
    IN  IF ~st.config.RedisEnabled \/ ginContext.isNil \/ Len(channelIds) = 0 THEN miss
        ELSE IF channelIds[1] \notin DOMAIN st.Channels THEN miss
        ELSE LET firstChoice == st.Channels[channelIds[1]]
                 sessionHash == generateSessionHashForChannel(firstChoice.Channel, ginContext)
                 channelType == firstChoice.Channel.Type
                 mapped == GetStickySessionMapping(st.sticky, sessionHash, channelType, o)
                 dropped == [channel |-> 0,
                             sticky |-> DeleteStickySessionMapping(st.sticky, sessionHash, channelType)]
             IN  IF sessionHash = "" THEN miss
                 ELSE IF mapped <= 0 THEN miss
                 ELSE IF mapped \notin DOMAIN st.Channels \/ st.Channels[mapped].Disable THEN dropped
                 ELSE IF ~Contains(mapped, channelIds) THEN dropped
                 ELSE IF IsInCooldown(st.Cooldowns, mapped, modelName, st.now) THEN dropped
                 ELSE IF IsSkip(filters, mapped, st.Channels[mapped]) THEN dropped
                 ELSE [channel |-> mapped, sticky |-> st.sticky]

\* ChannelsChooser.createStickySession: the store after
createStickySession(row, ginContext, st, o) ==
    IF ~st.config.RedisEnabled \/ ginContext.isNil THEN st.sticky
    ELSE LET sessionHash == generateSessionHashForChannel(row, ginContext)
         IN  IF sessionHash = "" THEN st.sticky
             ELSE SetStickySessionMapping(st.sticky, sessionHash, row.Id, row.Type, o)

-----------------------------------------------------------------------------
(* Weighted selection: model/balancer.go 560-621 *)

\* A variant of the eligibility test that does not look at Disable.
IsValidChannelIgnoreDisable(channelId, filters, modelName, st) ==
    /\ channelId \in DOMAIN st.Channels
    /\ ~IsInCooldown(st.Cooldowns, channelId, modelName, st.now)
    /\ ~IsSkip(filters, channelId, st.Channels[channelId])

\* the eligibility test of balancer and countValidChannels
IsValidChannel(channelId, filters, modelName, st) ==
    /\ channelId \in DOMAIN st.Channels
    /\ ~st.Channels[channelId].Disable
    /\ ~IsInCooldown(st.Cooldowns, channelId, modelName, st.now)
    /\ ~IsSkip(filters, channelId, st.Channels[channelId])

\* validChannels of balancer, in tier order
validChannels(channelIds, filters, modelName, st) ==
    SelectSeq(channelIds, LAMBDA id : IsValidChannel(id, filters, modelName, st))

RECURSIVE SumWeights(_, _)
SumWeights(ids, st) ==
    IF ids = <<>> THEN 0 ELSE st.Channels[Head(ids)].Channel.Weight + SumWeights(Tail(ids), st)

\* A variant of the loop that stops when the running value reaches 0.
RECURSIVE WeightedPickInclusive(_, _, _)
WeightedPickInclusive(valid, choiceWeight, st) ==
    IF valid = <<>> THEN 0
    ELSE LET rest == choiceWeight - st.Channels[Head(valid)].Channel.Weight
         IN  IF rest <= 0 THEN Head(valid) ELSE WeightedPickInclusive(Tail(valid), rest, st)

\* the subtract-and-walk loop of balancer: the id chosen for the draw choiceWeight, 0
\* when the loop falls through
RECURSIVE WeightedPick(_, _, _)
WeightedPick(valid, choiceWeight, st) ==
    IF valid = <<>> THEN 0
    ELSE LET rest == choiceWeight - st.Channels[Head(valid)].Channel.Weight
         IN  IF rest < 0 THEN Head(valid) ELSE WeightedPick(Tail(valid), rest, st)

\* ChannelsChooser.balancer: every result it can produce, one per draw of rand.Intn.
\* rand.Intn panics when totalWeight is not positive.
balancer(channelIds, filters, modelName, ginContext, st, o) ==
    LET stickyResult == checkStickySession(channelIds, filters, modelName, ginContext, st, o)
        st2 == [st EXCEPT !.sticky = stickyResult.sticky]
        valid == validChannels(channelIds, filters, modelName, st)
        totalWeight == SumWeights(valid, st)
        selected(id) == [channel |-> id, panic |-> FALSE,
                         sticky |-> createStickySession(st.Channels[id].Channel, ginContext, st2, o)]
    IN  IF stickyResult.channel # 0
        THEN {[channel |-> stickyResult.channel, panic |-> FALSE, sticky |-> stickyResult.sticky]}
        ELSE IF Len(valid) = 0
        THEN {[channel |-> 0, panic |-> FALSE, sticky |-> st2.sticky]}
        ELSE IF Len(valid) = 1 THEN {selected(valid[1])}
        ELSE IF totalWeight <= 0
        THEN {[channel |-> 0, panic |-> TRUE, sticky |-> st2.sticky]}
        ELSE {IF WeightedPick(valid, r, st) = 0
              THEN [channel |-> 0, panic |-> FALSE, sticky |-> st2.sticky]
              ELSE selected(WeightedPick(valid, r, st)) : r \in 0..(totalWeight - 1)}

\* the loop "for _, priority := range channelsPriority" of Next and NextByValidatedModel,
\* from tier i on: the first tier whose balancer returns a channel decides
RECURSIVE WalkTiers(_, _, _, _, _, _, _)
WalkTiers(tiers, i, filters, modelName, ginContext, st, o) ==
    IF i > Len(tiers) THEN {[channel |-> 0, panic |-> FALSE, sticky |-> st.sticky]}
    ELSE UNION {IF b.channel # 0 \/ b.panic THEN {b}
                ELSE WalkTiers(tiers, i + 1, filters, modelName, ginContext,
                               [st EXCEPT !.sticky = b.sticky], o) :
                b \in balancer(tiers[i], filters, modelName, ginContext, st, o)}

\* ChannelsChooser.NextByValidatedModel: every result, as [channel, panic, sticky, err]
NextByValidatedModel(group, validatedModelName, ginContext, filters, st, o) ==
    LET fail(e) == {[channel |-> 0, panic |-> FALSE, sticky |-> st.sticky, err |-> e]}
    IN  IF group \notin DOMAIN st.Rule THEN fail("ErrGroupNotFound")
        ELSE IF validatedModelName \notin DOMAIN st.Rule[group] THEN fail("ErrModelNotFoundInGroup")
        ELSE IF Len(st.Rule[group][validatedModelName]) = 0 THEN fail("ErrNoChannelsAvailable")
        ELSE {[channel |-> b.channel, panic |-> b.panic, sticky |-> b.sticky,
               err |-> IF b.channel # 0 THEN "" ELSE "ErrNoAvailableChannelsAfterFiltering"] :
              b \in WalkTiers(st.Rule[group][validatedModelName], 1, filters,
                              validatedModelName, ginContext, st, o)}

\* A variant that counts every channel of the tier.
countValidChannelsAll(channelIds, filters, modelName, st) == Len(channelIds)

\* ChannelsChooser.countValidChannels
countValidChannels(channelIds, filters, modelName, st) ==
    Len(validChannels(channelIds, filters, modelName, st))

RECURSIVE SumTiers(_, _, _, _)
SumTiers(tiers, filters, modelName, st) ==
    IF tiers = <<>> THEN 0
    ELSE countValidChannels(Head(tiers), filters, modelName, st)
         + SumTiers(Tail(tiers), filters, modelName, st)

\* the count of the first tier that has an eligible channel
RECURSIVE FirstTierCount(_, _, _, _)
FirstTierCount(tiers, filters, modelName, st) ==
    IF tiers = <<>> THEN 0
    ELSE IF countValidChannels(Head(tiers), filters, modelName, st) > 0
    THEN countValidChannels(Head(tiers), filters, modelName, st)
    ELSE FirstTierCount(Tail(tiers), filters, modelName, st)

\* A variant that stops at the first tier with an eligible channel, as selection does.
CountAvailableChannelsFirstTier(group, modelName, filters, st) ==
    IF group \notin DOMAIN st.Rule THEN 0
    ELSE IF modelName \notin DOMAIN st.Rule[group] THEN 0
    ELSE FirstTierCount(st.Rule[group][modelName], filters, modelName, st)

\* ChannelsChooser.CountAvailableChannels
CountAvailableChannels(group, modelName, filters, st) ==
    IF group \notin DOMAIN st.Rule THEN 0
    ELSE IF modelName \notin DOMAIN st.Rule[group] THEN 0
    ELSE SumTiers(st.Rule[group][modelName], filters, modelName, st)

-----------------------------------------------------------------------------
(* Model matching and Next: model/balancer.go 624-715 *)

\* strings.HasPrefix
HasPrefix(s, prefix) == Len(prefix) <= Len(s) /\ SubSeq(s, 1, Len(prefix)) = prefix

\* strings.ToLower over the letters model names are written in
ToLower(s) ==
    [i \in 1..Len(s) |-> CASE s[i] = "M" -> "m" [] s[i] = "N" -> "n" [] OTHER -> s[i]]

\* utils.GetModelsWithMatch: the wildcard patterns whose text before the "*" opens the
\* model name; any of them can be the one returned, the empty name when there is none
GetModelsWithMatch(match, modelName) ==
    LET hits == {p \in match : HasSuffixStar(p) /\ HasPrefix(modelName, SubSeq(p, 1, Len(p) - 1))}
    IN  IF hits = {} THEN {<<>>} ELSE hits

\* utils.GetModelsWithMatchCaseInsensitive
GetModelsWithMatchCaseInsensitive(match, modelName) ==
    LET hits == {p \in match : HasSuffixStar(p)
                     /\ HasPrefix(ToLower(modelName), ToLower(SubSeq(p, 1, Len(p) - 1)))}
    IN  IF hits = {} THEN {<<>>} ELSE hits

\* the matching block shared by GetMatchedModelName and Next, entered when the name is
\* not a key of Rule[group]: every matchModel it can end with
MatchModel(group, modelName, st) ==
    LET insensitive ==
            IF st.config.ModelNameCaseInsensitiveEnabled
            THEN LET exact == {e \in DOMAIN st.Rule[group] : ToLower(e) = ToLower(modelName)}
                 IN  IF exact # {} THEN exact
                     ELSE GetModelsWithMatchCaseInsensitive(st.Match, modelName)
            ELSE {<<>>}
    IN  UNION {IF x = <<>> THEN GetModelsWithMatch(st.Match, modelName) ELSE {x} :
               x \in insensitive}

\* ChannelsChooser.GetMatchedModelName: every result, as [name, err]
GetMatchedModelName(group, modelName, st) ==
    IF group \notin DOMAIN st.Rule THEN {[name |-> <<>>, err |-> "group not found"]}
    ELSE IF modelName \in DOMAIN st.Rule[group] THEN {[name |-> modelName, err |-> ""]}
    ELSE {[name |-> x, err |-> IF x = <<>> THEN "ErrNoAvailableChannelForModel" ELSE ""] :
          x \in MatchModel(group, modelName, st)}

\* the outcome of the sticky store calls when no session context is passed
NoRedis == [getOk |-> FALSE, setOk |-> FALSE]

\* ChannelsChooser.Next: every result, as [channel, panic, sticky, err, matched]; the
\* tiers are those of the matched key, the balancer is given the requested name
Next(group, modelName, filters, st) ==
    LET fail(e) == {[channel |-> 0, panic |-> FALSE, sticky |-> st.sticky, err |-> e,
                     matched |-> <<>>]}
    IN  IF group \notin DOMAIN st.Rule THEN fail("ErrGroupNotFound")
        ELSE LET keys == IF modelName \in DOMAIN st.Rule[group] THEN {modelName}
                         ELSE MatchModel(group, modelName, st)
             IN  UNION {IF k \notin DOMAIN st.Rule[group] THEN fail("ErrModelNotFound")
                        ELSE IF Len(st.Rule[group][k]) = 0 THEN fail("ErrChannelNotFound")
                        ELSE {[channel |-> b.channel, panic |-> b.panic, sticky |-> b.sticky,
                               err |-> IF b.channel # 0 THEN "" ELSE "ErrChannelNotFound",
                               matched |-> k] :
                              b \in WalkTiers(st.Rule[group][k], 1, filters, modelName,
                                              NilContext, st, NoRedis)} :
                        k \in keys}

\* ChannelsChooser.Disable and Enable
Disable(channels, channelId) ==
    IF channelId \notin DOMAIN channels THEN channels
    ELSE [channels EXCEPT ![channelId].Disable = TRUE]

Enable(channels, channelId) ==
    IF channelId \notin DOMAIN channels THEN channels
    ELSE [channels EXCEPT ![channelId].Disable = FALSE]

-----------------------------------------------------------------------------
(* Provider selection of the relay: GetProvider and its helpers *)

\* CheckLimitModel: the error text, "" for nil
CheckLimitModel(c, modelName) ==
    IF ~c.token_setting.exists THEN ""
    ELSE IF ~c.token_setting.Enabled THEN ""
    ELSE IF c.token_setting.Models = <<>> THEN "token has no models"
    ELSE IF Contains(modelName, c.token_setting.Models) THEN ""
    ELSE "token does not support model"

\* A variant that always ends the chain with the user's group.
buildGroupChainWithUser(tokenGroup, backupGroup, userGroup) ==
    (IF tokenGroup # <<>> THEN <<tokenGroup>> ELSE <<>>)
    \o (IF backupGroup # <<>> /\ backupGroup # tokenGroup THEN <<backupGroup>> ELSE <<>>)
    \o (IF userGroup # <<>> /\ userGroup # tokenGroup /\ userGroup # backupGroup
        THEN <<userGroup>> ELSE <<>>)

\* buildGroupChain
buildGroupChain(tokenGroup, backupGroup, userGroup) ==
    IF tokenGroup # <<>> \/ backupGroup # <<>>
    THEN (IF tokenGroup # <<>> THEN <<tokenGroup>> ELSE <<>>)
         \o (IF backupGroup # <<>> /\ backupGroup # tokenGroup THEN <<backupGroup>> ELSE <<>>)
    ELSE IF userGroup # <<>> THEN <<userGroup>> ELSE <<>>

\* fetchChannelById: model.GetChannelById reads the row of the channels table
fetchChannelById(channelId, table) ==
    IF ~\E i \in 1..Len(table) : table[i].Id = channelId
    THEN [channel |-> 0, err |-> "ErrInvalidChannelId"]
    ELSE LET row == table[CHOOSE i \in 1..Len(table) : table[i].Id = channelId]
         IN  IF row.Status # ChannelStatusEnabled
             THEN [channel |-> 0, err |-> "ErrChannelDisabled"]
             ELSE [channel |-> channelId, err |-> ""]

\* buildChannelFilters
buildChannelFilters(c, modelName) ==
    (IF c.skip_only_chat THEN <<[kind |-> "FilterOnlyChat"]>> ELSE <<>>)
    \o (IF c.skip_channel_ids.exists
        THEN <<[kind |-> "FilterChannelId", ids |-> c.skip_channel_ids.ids]>> ELSE <<>>)
    \o (IF c.allow_channel_type.exists
        THEN <<[kind |-> "FilterChannelTypes", types |-> c.allow_channel_type.types]>> ELSE <<>>)
    \o (IF c.is_stream THEN <<[kind |-> "FilterDisabledStream", model |-> modelName]>> ELSE <<>>)

\* fetchChannelByModel: every result, as [channel, err, sticky]
fetchChannelByModel(c, modelName, st, o) ==
    {[channel |-> IF r.err # "" \/ r.panic THEN 0 ELSE r.channel,
      err |-> IF r.panic THEN "panic"
              ELSE IF r.err # "" THEN "ErrNoAvailableChannelForModel" ELSE "",
      sticky |-> r.sticky] :
     r \in NextByValidatedModel(c.token_group, modelName, c.ginContext,
                                buildChannelFilters(c, modelName), st, o)}

\* fetchChannel: a pinned channel is fetched by id, whatever the filters
fetchChannel(c, modelName, table, st, o) ==
    IF c.specific_channel_id > 0 /\ ~c.specific_channel_id_ignore
    THEN {[channel |-> fetchChannelById(c.specific_channel_id, table).channel,
           err |-> fetchChannelById(c.specific_channel_id, table).err,
           sticky |-> st.sticky]}
    ELSE fetchChannelByModel(c, modelName, st, o)

\* the loop over groupChain of GetProvider from position i on: every way it can end, as
\* [channel, usedGroup, isBackupGroup, actualModelName, lastErr, c, sticky]
RECURSIVE WalkGroups(_, _, _, _, _, _, _, _, _)
WalkGroups(chain, i, c, modelName, actualModelName, lastErr, table, st, o) ==
    IF i > Len(chain)
    THEN {[channel |-> 0, usedGroup |-> <<>>, isBackupGroup |-> FALSE,
           actualModelName |-> actualModelName, lastErr |-> lastErr, c |-> c,
           sticky |-> st.sticky]}
    ELSE UNION {
        IF matched.err # ""
        THEN WalkGroups(chain, i + 1, c, modelName, actualModelName, matched.err, table, st, o)
        ELSE LET c2 == [c EXCEPT !.token_group = chain[i]]
             IN  UNION {
                    IF f.err # ""
                    THEN WalkGroups(chain, i + 1, c2, modelName, matched.name, f.err, table,
                                    [st EXCEPT !.sticky = f.sticky], o)
                    ELSE {[channel |-> f.channel, usedGroup |-> chain[i],
                           isBackupGroup |-> i > 1, actualModelName |-> matched.name,
                           lastErr |-> lastErr, c |-> c2, sticky |-> f.sticky]} :
                    f \in fetchChannel(c2, matched.name, table, st, o)} :
        matched \in GetMatchedModelName(chain[i], modelName, st)}

\* provider.ModelMappingHandler: the channel's mapping is configuration outside the
\* registry; the name is kept, or mapped to another name that may carry a "+"
ModelMappingHandler(actualModelName) ==
    IF actualModelName = <<"m">> THEN {actualModelName}
    ELSE {actualModelName, <<"+", "m">>}

\* GetProvider: every result, as [channel, newModelName, fail, c, sticky]
GetProvider(c, modelName, table, st, o) ==
    LET groupChain == buildGroupChain(c.token_group, c.token_backup_group, c.group)
        failed(e, c2, store) == [channel |-> 0, newModelName |-> <<>>, fail |-> e, c |-> c2,
                                 sticky |-> store]
    IN  IF CheckLimitModel(c, modelName) # ""
        THEN {failed(CheckLimitModel(c, modelName), c, st.sticky)}
        ELSE IF Len(groupChain) = 0 THEN {failed("", c, st.sticky)}
        ELSE UNION {
            IF w.channel = 0
            THEN {failed(IF w.lastErr = "" THEN "no group has a channel" ELSE w.lastErr,
                         w.c, w.sticky)}
            ELSE {[channel |-> w.channel,
                   newModelName |-> IF HasPrefix(mapped, <<"+">>) THEN Tail(mapped) ELSE mapped,
                   fail |-> "",
                   c |-> [w.c EXCEPT !.token_group = w.usedGroup,
                                     !.original_token_group = groupChain[1],
                                     !.is_backupGroup = w.isBackupGroup,
                                     !.channel_id = w.channel,
                                     !.original_model = modelName,
                                     !.new_model = IF HasPrefix(mapped, <<"+">>)
                                                   THEN Tail(mapped) ELSE mapped,
                                     !.billing_original_model = HasPrefix(mapped, <<"+">>)],
                   sticky |-> w.sticky] :
                  mapped \in ModelMappingHandler(w.actualModelName)} :
            w \in WalkGroups(groupChain, 1, c, modelName, <<>>, "", table, st, o)}

-----------------------------------------------------------------------------
(* Retry classification, billing and cooldown of the relay *)

StatusTooManyRequests == 429
StatusTemporaryRedirect == 307
StatusRequestTimeout == 408
StatusGatewayTimeout == 504
StatusOriginTimeout == 524
StatusBadRequest == 400
StatusForbidden == 403
StatusInternalServerError == 500
StatusOK == 200
StatusNoContent == 204
StatusUnauthorized == 401
StatusNotFound == 404
StatusBadGateway == 502

ChannelTypeAnthropic == "anthropic"
ChannelTypeBedrock == "bedrock"

\* a nil *types.OpenAIErrorWithStatusCode; Message is the set of phrases the text contains
NoError == [StatusCode |-> 0, LocalError |-> FALSE, RateLimitResetAt |-> 0,
            Message |-> {}, Param |-> ""]

\* common.ErrorWrapperLocal / StringErrorWrapperLocal
LocalErrorOf(statusCode) == [NoError EXCEPT !.StatusCode = statusCode, !.LocalError = TRUE]

\* shouldRetryBadRequest
shouldRetryBadRequest(channelType, apiErr) ==
    CASE channelType = ChannelTypeAnthropic ->
            "Your credit balance is too low" \in apiErr.Message
      [] channelType = ChannelTypeBedrock -> "Operation not allowed" \in apiErr.Message
      [] OTHER -> apiErr.Param = "INVALID_ARGUMENT" /\ "API key not valid" \in apiErr.Message

\* A variant that tests the 5xx class before the timeout codes.
shouldRetryClassFirst(c, apiErr, channelType) ==
    IF apiErr = NoError THEN FALSE
    ELSE IF apiErr.LocalError \/ (c.specific_channel_id > 0 /\ ~c.specific_channel_id_ignore)
    THEN FALSE
    ELSE IF apiErr.StatusCode \div 100 = 5 THEN TRUE
    ELSE IF apiErr.StatusCode \in {StatusTooManyRequests, StatusTemporaryRedirect} THEN TRUE
    ELSE IF apiErr.StatusCode = StatusRequestTimeout THEN FALSE
    ELSE IF apiErr.StatusCode = StatusBadRequest THEN shouldRetryBadRequest(channelType, apiErr)
    ELSE IF apiErr.StatusCode \div 100 = 2 THEN FALSE
    ELSE TRUE

\* A variant that does not look at LocalError.
shouldRetryIgnoreLocal(c, apiErr, channelType) ==
    IF apiErr = NoError THEN FALSE
    ELSE IF c.specific_channel_id > 0 /\ ~c.specific_channel_id_ignore THEN FALSE
    ELSE IF apiErr.StatusCode \in {StatusTooManyRequests, StatusTemporaryRedirect} THEN TRUE
    ELSE IF apiErr.StatusCode \in {StatusRequestTimeout, StatusGatewayTimeout, StatusOriginTimeout}
    THEN FALSE
    ELSE IF apiErr.StatusCode = StatusBadRequest THEN shouldRetryBadRequest(channelType, apiErr)
    ELSE IF apiErr.StatusCode \div 100 = 5 THEN TRUE
    ELSE IF apiErr.StatusCode \div 100 = 2 THEN FALSE
    ELSE TRUE

\* A variant that classifies every error as retryable.
shouldRetryAlways(c, apiErr, channelType) == apiErr # NoError

\* shouldRetry
shouldRetry(c, apiErr, channelType) ==
    IF apiErr = NoError THEN FALSE
    ELSE IF apiErr.LocalError \/ (c.specific_channel_id > 0 /\ ~c.specific_channel_id_ignore)
    THEN FALSE
    ELSE IF apiErr.StatusCode \in {StatusTooManyRequests, StatusTemporaryRedirect} THEN TRUE
    ELSE IF apiErr.StatusCode \in {StatusRequestTimeout, StatusGatewayTimeout, StatusOriginTimeout}
    THEN FALSE
    ELSE IF apiErr.StatusCode = StatusBadRequest THEN shouldRetryBadRequest(channelType, apiErr)
    ELSE IF apiErr.StatusCode \div 100 = 5 THEN TRUE
    ELSE IF apiErr.StatusCode \div 100 = 2 THEN FALSE
    ELSE TRUE

\* A variant that refunds every failed attempt.
RelayHandlerRefundOnError(outcome) ==
    IF outcome.tokenErr
    THEN [err |-> LocalErrorOf(StatusBadRequest), done |-> TRUE, Consume |-> 0, Undo |-> 0]
    ELSE IF outcome.preQuotaErr # NoError
    THEN [err |-> outcome.preQuotaErr, done |-> TRUE, Consume |-> 0, Undo |-> 0]
    ELSE IF outcome.sendErr # NoError
    THEN [err |-> outcome.sendErr, done |-> outcome.sendDone, Consume |-> 0, Undo |-> 1]
    ELSE [err |-> NoError, done |-> outcome.sendDone, Consume |-> 1, Undo |-> 0]

\* usage.CompletionTokens after the stream-interruption recount of RelayHandler
CompletionTokensOf(outcome) ==
    IF outcome.CompletionTokens = 0 /\ outcome.TextTokens > 0
    THEN outcome.TextTokens ELSE outcome.CompletionTokens

\* RelayHandler on what the collaborators return: the error, done, and how often
\* quota.Consume and quota.Undo were called
RelayHandler(outcome) ==
    IF outcome.tokenErr
    THEN [err |-> LocalErrorOf(StatusBadRequest), done |-> TRUE, Consume |-> 0, Undo |-> 0]
    ELSE IF outcome.preQuotaErr # NoError
    THEN [err |-> outcome.preQuotaErr, done |-> TRUE, Consume |-> 0, Undo |-> 0]
    ELSE IF outcome.sendErr # NoError
    THEN IF CompletionTokensOf(outcome) > 0
         THEN [err |-> outcome.sendErr, done |-> outcome.sendDone, Consume |-> 1, Undo |-> 0]
         ELSE [err |-> outcome.sendErr, done |-> outcome.sendDone, Consume |-> 0, Undo |-> 1]
    ELSE [err |-> NoError, done |-> outcome.sendDone, Consume |-> 1, Undo |-> 0]

\* A variant that never cools down for less than the configured default.
shouldCooldownsAtLeastDefault(c, channelId, apiErr, cooldowns, nowTime, cfg) ==
    LET durationSeconds == apiErr.RateLimitResetAt - nowTime
        longer == IF durationSeconds > cfg.RetryCooldownSeconds
                  THEN durationSeconds ELSE cfg.RetryCooldownSeconds
        cooled ==
            IF apiErr.StatusCode # StatusTooManyRequests THEN cooldowns
            ELSE IF apiErr.RateLimitResetAt > 0
            THEN SetCooldownsWithDuration(cooldowns, channelId, c.new_model, longer, nowTime).map
            ELSE SetCooldowns(cooldowns, channelId, c.new_model, nowTime, cfg).map
        skipChannelIds == IF c.skip_channel_ids.exists THEN c.skip_channel_ids.ids ELSE <<>>
    IN  [Cooldowns |-> cooled,
         c |-> [c EXCEPT !.skip_channel_ids =
                            [exists |-> TRUE, ids |-> Append(skipChannelIds, channelId)]],
         cooldownApplied |-> apiErr.StatusCode = StatusTooManyRequests]

\* A variant that leaves the skip-list alone.
shouldCooldownsNoSkip(c, channelId, apiErr, cooldowns, nowTime, cfg) ==
    LET durationSeconds == apiErr.RateLimitResetAt - nowTime
        cooled ==
            IF apiErr.StatusCode # StatusTooManyRequests THEN cooldowns
            ELSE IF apiErr.RateLimitResetAt > 0 /\ durationSeconds > 0
            THEN SetCooldownsWithDuration(cooldowns, channelId, c.new_model,
                                          durationSeconds, nowTime).map
            ELSE SetCooldowns(cooldowns, channelId, c.new_model, nowTime, cfg).map
    IN  [Cooldowns |-> cooled, c |-> c,
         cooldownApplied |-> apiErr.StatusCode = StatusTooManyRequests]

\* shouldCooldowns: the cooldown map and the context after, and cooldownApplied
shouldCooldowns(c, channelId, apiErr, cooldowns, nowTime, cfg) ==
    LET durationSeconds == apiErr.RateLimitResetAt - nowTime
        cooled ==
            IF apiErr.StatusCode # StatusTooManyRequests THEN cooldowns
            ELSE IF apiErr.RateLimitResetAt > 0 /\ durationSeconds > 0
            THEN SetCooldownsWithDuration(cooldowns, channelId, c.new_model,
                                          durationSeconds, nowTime).map
            ELSE SetCooldowns(cooldowns, channelId, c.new_model, nowTime, cfg).map
        skipChannelIds == IF c.skip_channel_ids.exists THEN c.skip_channel_ids.ids ELSE <<>>
    IN  [Cooldowns |-> cooled,
         c |-> [c EXCEPT !.skip_channel_ids =
                            [exists |-> TRUE, ids |-> Append(skipChannelIds, channelId)]],
         cooldownApplied |-> apiErr.StatusCode = StatusTooManyRequests]

\* the error Relay makes up when the retry ceiling is exceeded: a local 429 whose
\* message says that the retries timed out
RetryTimeoutError ==
    [LocalErrorOf(StatusTooManyRequests) EXCEPT !.Message = {"retry timeout"}]

\* A variant without a ceiling.
RetryNeverTimedOut(nowTime, startTime, cfg) == FALSE

\* A variant that finds the ceiling exceeded at every loop head.
RetryAlwaysTimedOut(nowTime, startTime, cfg) == TRUE

\* time.Since(startTime) > timeout
RetryTimedOut(nowTime, startTime, cfg) == nowTime - startTime > cfg.RetryTimeOut

\* A variant that takes the configured retries whatever the channel count.
ActualRetryTimesUncapped(retryTimes, totalChannelsAtStart) == retryTimes

\* actualRetryTimes of Relay
ActualRetryTimes(retryTimes, totalChannelsAtStart) ==
    IF totalChannelsAtStart < retryTimes THEN totalChannelsAtStart ELSE retryTimes

-----------------------------------------------------------------------------
(* Values shared by the specifications *)

EmptyMap == [k \in {} |-> 0]

ModelM == <<"m">>
ModelN == <<"n">>
ModelNStar == <<"n", "*">>

Absent == 0 - 1

\* the stored expiry of (channelId, modelName), Absent when there is no entry
StoredExpiry(m, channelId, modelName) ==
    IF CooldownKey(channelId, modelName) \in DOMAIN m
    THEN m[CooldownKey(channelId, modelName)] ELSE Absent

\* call describes the call that has just returned; the clock advancing clears it
NoCall == [op |-> "none", channelId |-> 0, modelName |-> <<>>, group |-> <<>>, d |-> 0,
           before |-> Absent, ok |-> FALSE, channel |-> 0, count |-> 0,
           filters |-> <<>>, matched |-> <<>>, mapped |-> 0, err |-> ""]

IdleSetter == [pc |-> "idle", key |-> <<>>, nowTime |-> 0, newCooldownTime |-> 0,
               existing |-> 0, returned |-> FALSE]
IdleSweep == [pc |-> "idle", nowTime |-> 0, visited |-> {}, atStart |-> {}, key |-> <<>>,
              deletedLive |-> FALSE]
IdleLoader == [pc |-> "idle", built |-> NoValue, gen |-> 0,
               ver |-> [Rule |-> 0, Channels |-> 0, Match |-> 0, ModelGroup |-> 0]]
NoRequest == [pc |-> "none"]

\* the variables a specification does not use keep these values
RegistryUnused ==
    /\ Channels = EmptyMap /\ Rule = EmptyMap /\ Match = {} /\ ModelGroup = EmptyMap
    /\ db = <<>> /\ sticky = EmptyMap
CooldownProcsUnused == setter = EmptyMap /\ sweep = IdleSweep
LoadProcsUnused == lock = [readers |-> {}, writer |-> FALSE] /\ loader = IdleLoader /\ reader = EmptyMap
RelayUnused == rq = NoRequest

-----------------------------------------------------------------------------
(* SpecCooldown: the cooldown tracker called sequentially (whole calls) *)

\* channel ids passed by callers: 0 is the zero value, no channel
NumCooldownChannels == 1
CooldownChannelIds == 0..NumCooldownChannels
CooldownModels == {<<>>, ModelM}
Durations == (0 - 1)..MaxDuration

InitCooldown ==
    /\ now = 0
    /\ Cooldowns = EmptyMap
    /\ call = NoCall
    /\ track = EmptyMap
    /\ config = NoValue
    /\ RegistryUnused /\ CooldownProcsUnused /\ LoadProcsUnused /\ RelayUnused

cooldownFrame == <<registryVars, sticky, setter, sweep, lock, loader, reader, config, rq>>

\* the clock advances
Tick ==
    /\ now < MaxTime
    /\ now' = now + 1
    /\ call' = NoCall
    /\ UNCHANGED <<Cooldowns, registryVars, sticky, track, setter, sweep, lock,
                   loader, reader, config, rq>>

\* a caller runs SetCooldownsWithDuration(channelId, modelName, d) to completion
SetCooldownsCall ==
    \E channelId \in CooldownChannelIds, modelName \in CooldownModels, d \in Durations :
        LET r == SetCooldownsWithDuration(Cooldowns, channelId, modelName, d, now)
            before == StoredExpiry(Cooldowns, channelId, modelName)
        IN  /\ Cooldowns' = r.map
            /\ call' = [NoCall EXCEPT !.op = "SetCooldownsWithDuration", !.channelId = channelId,
                                      !.modelName = modelName, !.d = d,
                                      !.before = before, !.ok = r.ok]
            /\ track' = IF channelId # 0 /\ modelName # <<>> /\ d > 0
                           /\ (before = Absent \/ ~(now < before))
                        THEN [k \in DOMAIN track \cup {<<channelId, modelName>>} |->
                                IF k = <<channelId, modelName>> THEN now + d ELSE track[k]]
                        ELSE track
            /\ UNCHANGED <<now, cooldownFrame>>

\* a caller runs IsInCooldown(channelId, modelName)
IsInCooldownCall ==
    \E channelId \in CooldownChannelIds, modelName \in CooldownModels :
        /\ call' = [NoCall EXCEPT !.op = "IsInCooldown", !.channelId = channelId,
                                  !.modelName = modelName,
                                  !.ok = IsInCooldown(Cooldowns, channelId, modelName, now)]
        /\ UNCHANGED <<now, Cooldowns, track, cooldownFrame>>

\* the hourly ticker runs CleanupExpiredCooldowns to completion
CleanupCall ==
    /\ Cooldowns' = CleanupExpiredCooldowns(Cooldowns, now)
    /\ call' = [NoCall EXCEPT !.op = "CleanupExpiredCooldowns"]
    /\ UNCHANGED <<now, track, cooldownFrame>>

NextCooldown == Tick \/ SetCooldownsCall \/ IsInCooldownCall \/ CleanupCall

SpecCooldown == InitCooldown /\ [][NextCooldown]_vars

\* C6: SetCooldownsWithDuration on a key whose stored expiry is still in the future leaves
\* the stored expiry as it was, whatever the duration; an entry that was absent or already
\* expired is replaced by now + duration.
C6_ActiveEntryKept ==
    (call.op = "SetCooldownsWithDuration" /\ call.ok) =>
        LET stored == StoredExpiry(Cooldowns, call.channelId, call.modelName)
        IN  IF call.before # Absent /\ now < call.before
            THEN stored = call.before
            ELSE stored = now + call.d

\* a set with another duration has just run on a key that was still active
C6_Witness ==
    /\ call.op = "SetCooldownsWithDuration" /\ call.ok
    /\ call.before # Absent /\ now < call.before
    /\ now + call.d # call.before

\* C7: after a set with d > 0 on an absent or expired key at time s, IsInCooldown is
\* true at every time before s + d and false from s + d on, whatever whole calls of
\* SetCooldownsWithDuration, IsInCooldown and CleanupExpiredCooldowns come in between
\* (track[k] is s + d of the last such set on k).
C7_RoundTrip ==
    /\ \A k \in DOMAIN track :
          IsInCooldown(Cooldowns, k[1], k[2], now) = (now < track[k])
    /\ (call.op = "IsInCooldown" /\ <<call.channelId, call.modelName>> \in DOMAIN track)
          => call.ok = (now < track[<<call.channelId, call.modelName>>])

\* IsInCooldown was asked at or after the expiry of a set and answered false, the entry
\* having been swept or not
C7_Witness ==
    /\ call.op = "IsInCooldown" /\ ~call.ok
    /\ <<call.channelId, call.modelName>> \in DOMAIN track
    /\ now >= track[<<call.channelId, call.modelName>>]
    /\ CooldownKey(call.channelId, call.modelName) \notin DOMAIN Cooldowns

-----------------------------------------------------------------------------
(* SpecSweep: SetCooldownsWithDuration goroutines and the sweep, step by step *)

Setters == 1..NumSetters
SweepModels == {<<>>, ModelM}
SweepDurations == 0..MaxDuration

InitSweep ==
    /\ now = 0
    /\ Cooldowns = EmptyMap
    /\ call = NoCall
    /\ track = EmptyMap
    /\ config = NoValue
    /\ setter = [p \in Setters |-> IdleSetter]
    /\ sweep = IdleSweep
    /\ RegistryUnused /\ LoadProcsUnused /\ RelayUnused

sweepFrame == <<registryVars, sticky, call, track, lock, loader, reader, config, rq>>

\* the clock advances while goroutines are anywhere in their calls
SweepTick ==
    /\ now < MaxTime
    /\ now' = now + 1
    /\ UNCHANGED <<Cooldowns, setter, sweep, sweepFrame>>

\* lines 98-104: the argument check, then nowTime and newCooldownTime are computed
SetterBegin(p) ==
    /\ setter[p].pc = "idle"
    /\ \E channelId \in CooldownChannelIds, modelName \in SweepModels, d \in SweepDurations :
          setter' = [setter EXCEPT ![p] =
              IF SetCooldownsRejects(channelId, modelName, d)
              THEN [IdleSetter EXCEPT !.returned = FALSE]
              ELSE [pc |-> "LoadOrStore", key |-> CooldownKey(channelId, modelName),
                    nowTime |-> now, newCooldownTime |-> now + d, existing |-> 0,
                    returned |-> FALSE]]
    /\ UNCHANGED <<now, Cooldowns, sweep, sweepFrame>>

\* lines 107-115: LoadOrStore, and the return when the entry is new or still active
SetterLoadOrStore(p) ==
    /\ setter[p].pc = "LoadOrStore"
    /\ LET r == LoadOrStore(Cooldowns, setter[p].key, setter[p].newCooldownTime)
       IN  /\ Cooldowns' = r.map
           /\ setter' = [setter EXCEPT ![p] =
                IF SetCooldownsExtends(r, setter[p].nowTime)
                THEN [setter[p] EXCEPT !.pc = "CompareAndSwap", !.existing = r.actual]
                ELSE [setter[p] EXCEPT !.pc = "idle", !.returned = TRUE]]
    /\ UNCHANGED <<now, sweep, sweepFrame>>

\* lines 118-121: the CompareAndSwap on the expired entry, then return true
SetterCompareAndSwap(p) ==
    /\ setter[p].pc = "CompareAndSwap"
    /\ Cooldowns' = CompareAndSwap(Cooldowns, setter[p].key, setter[p].existing,
                                   setter[p].newCooldownTime)
    /\ setter' = [setter EXCEPT ![p] = [setter[p] EXCEPT !.pc = "idle", !.returned = TRUE]]
    /\ UNCHANGED <<now, sweep, sweepFrame>>

\* line 142: the ticker fires and the sweep reads the clock
SweepBegin ==
    /\ sweep.pc = "idle"
    /\ sweep' = [sweep EXCEPT !.pc = "Range", !.nowTime = now, !.visited = {},
                              !.atStart = DOMAIN Cooldowns]
    /\ UNCHANGED <<now, Cooldowns, setter, sweepFrame>>

\* lines 143-144: Range hands the callback one entry and the value it holds then
SweepVisit ==
    /\ sweep.pc = "Range"
    /\ \E k \in DOMAIN Cooldowns \ sweep.visited :
          sweep' = IF SweepExpired(sweep.nowTime, Cooldowns[k])
                   THEN [sweep EXCEPT !.pc = "Delete", !.key = k]
                   ELSE [sweep EXCEPT !.visited = sweep.visited \cup {k}]
    /\ UNCHANGED <<now, Cooldowns, setter, sweepFrame>>

\* A variant of the delete that removes the entry only if it is still expired.
SweepDeleteIfExpired ==
    /\ sweep.pc = "Delete"
    /\ Cooldowns' = IF sweep.key \in DOMAIN Cooldowns /\ now < Cooldowns[sweep.key]
                    THEN Cooldowns ELSE Delete(Cooldowns, sweep.key)
    /\ sweep' = [sweep EXCEPT !.pc = "Range", !.visited = sweep.visited \cup {sweep.key}]
    /\ UNCHANGED <<now, setter, sweepFrame>>

\* line 145: the callback deletes the key, whatever it holds by now
SweepDelete ==
    /\ sweep.pc = "Delete"
    /\ Cooldowns' = Delete(Cooldowns, sweep.key)
    /\ sweep' = [sweep EXCEPT !.pc = "Range", !.visited = sweep.visited \cup {sweep.key},
                              !.deletedLive = sweep.deletedLive
                                  \/ (sweep.key \in DOMAIN Cooldowns /\ now < Cooldowns[sweep.key])]
    /\ UNCHANGED <<now, setter, sweepFrame>>

\* Range has visited every entry that was there throughout
SweepEnd ==
    /\ sweep.pc = "Range"
    /\ (sweep.atStart \cap DOMAIN Cooldowns) \subseteq sweep.visited
    /\ sweep' = [sweep EXCEPT !.pc = "idle", !.visited = {}, !.atStart = {}, !.key = <<>>]
    /\ UNCHANGED <<now, Cooldowns, setter, sweepFrame>>

NextSweep ==
    \/ SweepTick
    \/ \E p \in Setters : SetterBegin(p)
    \/ \E p \in Setters : SetterLoadOrStore(p)
    \/ \E p \in Setters : SetterCompareAndSwap(p)
    \/ SweepBegin
    \/ SweepVisit
    \/ SweepDelete
    \/ SweepEnd

SpecSweep == InitSweep /\ [][NextSweep]_vars

\* C9: under every interleaving of the sweep with SetCooldownsWithDuration calls on the
\* same key, the sweep never deletes an entry whose stored expiry is in the future at
\* the moment of the delete.
C9_SweepNeverDeletesLive == ~sweep.deletedLive

-----------------------------------------------------------------------------
(* The channels table *)

GroupG == <<"g">>
GroupH == <<"h">>

ChannelIds == 1..NumChannels

\* the columns of channel id: odd ids serve m and n* in group g, even ids serve m in
\* groups g and h; channel 1 has no configured weight; channel 1 is not session-affine
ChannelRow(id, status, priority) ==
    [Id |-> id,
     Group |-> IF id % 2 = 1 THEN <<"g">> ELSE <<"g", ",", " ", "h">>,
     Models |-> IF id % 2 = 1 THEN <<"m", ",", "n", "*", ",">> ELSE <<"m">>,
     Weight |-> IF id = 1 THEN 0 ELSE IF id % 2 = 0 THEN 3 ELSE 1,
     Priority |-> priority,
     Type |-> IF id = 1 THEN ChannelTypeOpenAI ELSE ChannelTypeClaudeCode,
     Status |-> status,
     OnlyChat |-> FALSE,
     NoStream |-> {}]

Priorities == {1, 2}

\* tables whose channels are each enabled or not, all of one priority
StatusTables ==
    {[id \in 1..NumLoadChannels |-> ChannelRow(id, status[id], 1)] :
        status \in [1..NumLoadChannels -> {ChannelStatusEnabled, ChannelStatusDisabled}]}

\* tables with every channel enabled, of any priorities
PriorityTables ==
    {[id \in ChannelIds |-> ChannelRow(id, ChannelStatusEnabled, priority[id])] :
        priority \in [ChannelIds -> Priorities]}

DefaultConfig ==
    [DefaultChannelWeight |-> 2, RedisEnabled |-> TRUE, RetryTimes |-> 0,
     RetryCooldownSeconds |-> 1, RetryTimeOut |-> 1,
     ModelNameCaseInsensitiveEnabled |-> FALSE]

-----------------------------------------------------------------------------
(* SpecLoad: Load and the readers of the registry, step by step under the RWMutex *)

Readers == 1..NumReaders
RegistryFields == {"Rule", "Channels", "Match", "ModelGroup"}

\* every channel id stored in some tier of a Rule map
RuleIds(rule) ==
    UNION {UNION {UNION {Range(rule[g][m][t]) : t \in 1..Len(rule[g][m])} :
                    m \in DOMAIN rule[g]} : g \in DOMAIN rule}

IdleReader == [pc |-> "idle", seen |-> [f \in RegistryFields |-> Absent], ids |-> {},
               resolved |-> {}]

InitLoad ==
    /\ now = 0
    /\ Cooldowns = EmptyMap
    /\ call = NoCall
    /\ track = EmptyMap
    /\ config = DefaultConfig
    /\ Channels = EmptyMap /\ Rule = EmptyMap /\ Match = {} /\ ModelGroup = EmptyMap
    /\ db \in StatusTables
    /\ sticky = EmptyMap
    /\ lock = [readers |-> {}, writer |-> FALSE]
    /\ loader = IdleLoader
    /\ reader = [r \in Readers |-> IdleReader]
    /\ CooldownProcsUnused /\ RelayUnused

loadFrame == <<now, Cooldowns, sticky, call, track, setter, sweep, config, rq>>

\* an administrator enables or disables a channel in the table
TableChange ==
    /\ \E t \in StatusTables : db' = t /\ t # db
    /\ UNCHANGED <<Channels, Rule, Match, ModelGroup, lock, loader, reader, loadFrame>>

\* lines 838-933: Load reads the enabled rows and builds the new maps, unlocked
LoadRead ==
    /\ loader.pc = "idle"
    /\ loader.gen < MaxLoads
    /\ loader' = [loader EXCEPT !.pc = "built", !.gen = loader.gen + 1,
                                !.built = LoadBuild(db, config.DefaultChannelWeight)]
    /\ UNCHANGED <<registryVars, lock, reader, loadFrame>>

\* A variant of cc.Lock() that does not wait for the readers.
LoadLockNoWait ==
    /\ loader.pc = "built"
    /\ lock' = [lock EXCEPT !.writer = TRUE]
    /\ loader' = [loader EXCEPT !.pc = "Rule"]
    /\ UNCHANGED <<registryVars, reader, loadFrame>>

\* line 936: cc.Lock() is granted when no reader and no writer holds the mutex
LoadLock ==
    /\ loader.pc = "built"
    /\ lock.readers = {} /\ ~lock.writer
    /\ lock' = [lock EXCEPT !.writer = TRUE]
    /\ loader' = [loader EXCEPT !.pc = "Rule"]
    /\ UNCHANGED <<registryVars, reader, loadFrame>>

\* lines 937-940: the four assignments, one at a time
LoadAssign ==
    /\ loader.pc \in RegistryFields
    /\ Rule' = IF loader.pc = "Rule" THEN loader.built.Rule ELSE Rule
    /\ Channels' = IF loader.pc = "Channels" THEN loader.built.Channels ELSE Channels
    /\ Match' = IF loader.pc = "Match" THEN loader.built.Match ELSE Match
    /\ ModelGroup' = IF loader.pc = "ModelGroup" THEN loader.built.ModelGroup ELSE ModelGroup
    /\ loader' = [loader EXCEPT !.ver[loader.pc] = loader.gen,
                                !.pc = CASE loader.pc = "Rule" -> "Channels"
                                         [] loader.pc = "Channels" -> "Match"
                                         [] loader.pc = "Match" -> "ModelGroup"
                                         [] loader.pc = "ModelGroup" -> "Unlock"]
    /\ UNCHANGED <<db, lock, reader, loadFrame>>

\* line 941: cc.Unlock()
LoadUnlock ==
    /\ loader.pc = "Unlock"
    /\ lock' = [lock EXCEPT !.writer = FALSE]
    /\ loader' = [loader EXCEPT !.pc = "idle", !.built = NoValue]
    /\ UNCHANGED <<registryVars, reader, loadFrame>>

\* cc.RLock() of Next, NextByValidatedModel, CountAvailableChannels,
\* GetMatchedModelName and GetChannel: granted while no writer holds the mutex
ReaderRLock(r) ==
    /\ reader[r].pc = "idle"
    /\ ~lock.writer
    /\ lock' = [lock EXCEPT !.readers = lock.readers \cup {r}]
    /\ reader' = [reader EXCEPT ![r] = [IdleReader EXCEPT !.pc = "reading"]]
    /\ UNCHANGED <<registryVars, loader, loadFrame>>

\* the call reads one of the fields it has not read yet: cc.Rule (the ids of its
\* tiers), cc.Channels (the ids it resolves), cc.Match or cc.ModelGroup
ReaderRead(r) ==
    /\ reader[r].pc = "reading"
    /\ \E f \in {x \in RegistryFields : reader[r].seen[x] = Absent} :
          reader' = [reader EXCEPT ![r] =
              [reader[r] EXCEPT !.seen[f] = loader.ver[f],
                                !.ids = IF f = "Rule" THEN RuleIds(Rule) ELSE reader[r].ids,
                                !.resolved = IF f = "Channels" THEN DOMAIN Channels
                                             ELSE reader[r].resolved]]
    /\ UNCHANGED <<registryVars, lock, loader, loadFrame>>

\* the deferred cc.RUnlock()
ReaderRUnlock(r) ==
    /\ reader[r].pc = "reading"
    /\ \A f \in RegistryFields : reader[r].seen[f] # Absent
    /\ lock' = [lock EXCEPT !.readers = lock.readers \ {r}]
    /\ reader' = [reader EXCEPT ![r] = [reader[r] EXCEPT !.pc = "idle"]]
    /\ UNCHANGED <<registryVars, loader, loadFrame>>

NextLoad ==
    \/ TableChange
    \/ LoadRead
    \/ LoadLock
    \/ LoadAssign
    \/ LoadUnlock
    \/ \E r \in Readers : ReaderRLock(r)
    \/ \E r \in Readers : ReaderRead(r)
    \/ \E r \in Readers : ReaderRUnlock(r)

SpecLoad == InitLoad /\ [][NextLoad]_vars

\* C10: under any interleaving of Load with concurrent readers, every reader call sees
\* Rule, Channels, Match and ModelGroup of one and the same Load, and every channel id
\* of a tier it saw resolves in the Channels map it saw.
C10_ReadersSeeOneSnapshot ==
    \A r \in Readers :
        /\ \A f, g \in RegistryFields :
              (reader[r].seen[f] # Absent /\ reader[r].seen[g] # Absent)
                  => reader[r].seen[f] = reader[r].seen[g]
        /\ (reader[r].seen["Rule"] # Absent /\ reader[r].seen["Channels"] # Absent)
              => reader[r].ids \subseteq reader[r].resolved

\* a reader that started before a second Load swapped the maps finished its call after
\* another Load had replaced a non-empty snapshot
C10_Witness ==
    \E r \in Readers :
        /\ reader[r].pc = "idle"
        /\ reader[r].seen["Rule"] = 1
        /\ reader[r].ids # {}
        /\ loader.gen = 2 /\ loader.pc # "idle"

-----------------------------------------------------------------------------
(* SpecChooser: whole calls of the chooser on a loaded registry *)

\* cooldown entries, disabled channels and elapsed seconds, taken together
MaxEvents == 1

ChooserGroups == {GroupG, GroupH}
ChooserModels == {ModelM, ModelN, ModelNStar}
SessionHash == "s"
\* a request context with its store outcome: no context, or a session whose store calls
\* all succeed or all fail
Sessions ==
    {[ginContext |-> NilContext, o |-> NoRedis]}
        \cup {[ginContext |-> [isNil |-> FALSE, sessionHash |-> SessionHash], o |-> o] :
               o \in {[getOk |-> TRUE, setOk |-> TRUE], NoRedis}}

\* the filter lists callers pass: none, or one skip list
ChooserFilters == {<<>>, <<[kind |-> "FilterChannelId", ids |-> <<NumChannels>>]>>}

\* the chooser as the operators read it
ChooserState ==
    [Channels |-> Channels, Cooldowns |-> Cooldowns, now |-> now, sticky |-> sticky,
     config |-> config, Rule |-> Rule, Match |-> Match]

Events(cooldowns, channels, nowTime) ==
    Cardinality(DOMAIN cooldowns) + Cardinality({id \in DOMAIN channels : channels[id].Disable})
        + nowTime

InitChooser ==
    /\ now = 0
    /\ Cooldowns = EmptyMap
    /\ call = NoCall
    /\ track = EmptyMap
    /\ config = DefaultConfig
    /\ db \in PriorityTables
    /\ Rule = LoadBuild(db, config.DefaultChannelWeight).Rule
    /\ Channels = LoadBuild(db, config.DefaultChannelWeight).Channels
    /\ Match = LoadBuild(db, config.DefaultChannelWeight).Match
    /\ ModelGroup = LoadBuild(db, config.DefaultChannelWeight).ModelGroup
    /\ sticky = EmptyMap
    /\ CooldownProcsUnused /\ LoadProcsUnused /\ RelayUnused

chooserFrame == <<Rule, Match, ModelGroup, db, track, setter, sweep, lock, loader, reader,
                  config, rq>>

ChooserTick ==
    /\ Events(Cooldowns, Channels, now + 1) <= MaxEvents
    /\ now' = now + 1
    /\ call' = NoCall
    /\ UNCHANGED <<Cooldowns, Channels, sticky, chooserFrame>>

\* a caller runs SetCooldowns(channelId, modelName)
ChooserSetCooldowns ==
    /\ call = NoCall
    /\ \E channelId \in ChannelIds, modelName \in ChooserModels :
        LET r == SetCooldowns(Cooldowns, channelId, modelName, now, config)
        IN  /\ Events(r.map, Channels, now) <= MaxEvents
            /\ Cooldowns' = r.map
            /\ call' = [NoCall EXCEPT !.op = "SetCooldowns", !.channelId = channelId,
                                      !.modelName = modelName, !.ok = r.ok]
            /\ UNCHANGED <<now, Channels, sticky, chooserFrame>>

ChooserDisable ==
    /\ call = NoCall
    /\ \E channelId \in ChannelIds :
        /\ Events(Cooldowns, Disable(Channels, channelId), now) <= MaxEvents
        /\ Channels' = Disable(Channels, channelId)
        /\ call' = [NoCall EXCEPT !.op = "Disable", !.channelId = channelId]
        /\ UNCHANGED <<now, Cooldowns, sticky, chooserFrame>>

ChooserEnable ==
    /\ call = NoCall
    /\ \E channelId \in ChannelIds :
        /\ Channels' = Enable(Channels, channelId)
        /\ call' = [NoCall EXCEPT !.op = "Enable", !.channelId = channelId]
        /\ UNCHANGED <<now, Cooldowns, sticky, chooserFrame>>

\* a caller runs Next(group, modelName, filters...)
ChooserNext ==
    /\ call = NoCall
    /\ \E group \in ChooserGroups, modelName \in ChooserModels, filters \in ChooserFilters :
        \E r \in Next(group, modelName, filters, ChooserState) :
            /\ sticky' = r.sticky
            /\ call' = [NoCall EXCEPT !.op = "Next", !.group = group, !.modelName = modelName,
                                      !.filters = filters, !.channel = r.channel,
                                      !.matched = r.matched,
                                      !.err = IF r.panic THEN "panic" ELSE r.err]
            /\ UNCHANGED <<now, Cooldowns, Channels, chooserFrame>>

\* a caller runs NextByValidatedModel(group, validatedModelName, ginContext, filters...)
ChooserNextByValidatedModel ==
    /\ call = NoCall
    /\ \E group \in ChooserGroups, modelName \in ChooserModels, filters \in ChooserFilters,
       session \in Sessions :
        \E r \in NextByValidatedModel(group, modelName, session.ginContext, filters,
                                      ChooserState, session.o) :
            /\ sticky' = r.sticky
            /\ call' = [NoCall EXCEPT !.op = "NextByValidatedModel", !.group = group,
                                      !.modelName = modelName, !.filters = filters,
                                      !.channel = r.channel, !.matched = modelName,
                                      !.mapped = IF session.ginContext.isNil THEN 0
                                                 ELSE GetStickySessionMapping(sticky, SessionHash,
                                                          ChannelTypeClaudeCode, session.o),
                                      !.err = IF r.panic THEN "panic" ELSE r.err]
            /\ UNCHANGED <<now, Cooldowns, Channels, chooserFrame>>

\* a caller runs CountAvailableChannels(group, modelName, filters...)
ChooserCountAvailableChannels ==
    /\ call = NoCall
    /\ \E group \in ChooserGroups, modelName \in ChooserModels, filters \in ChooserFilters :
          call' = [NoCall EXCEPT !.op = "CountAvailableChannels", !.group = group,
                                 !.modelName = modelName, !.filters = filters,
                                 !.count = CountAvailableChannels(group, modelName, filters,
                                                                  ChooserState)]
    /\ UNCHANGED <<now, Cooldowns, Channels, sticky, chooserFrame>>

\* the caller has taken the result of its call and is ready for the next one
ChooserReturn ==
    /\ call # NoCall
    /\ call' = NoCall
    /\ UNCHANGED <<now, Cooldowns, Channels, sticky, chooserFrame>>

NextChooser ==
    \/ ChooserTick
    \/ ChooserSetCooldowns
    \/ ChooserDisable
    \/ ChooserEnable
    \/ ChooserNext
    \/ ChooserNextByValidatedModel
    \/ ChooserCountAvailableChannels
    \/ ChooserReturn

SpecChooser == InitChooser /\ [][NextChooser]_vars

\* the enabled table rows that name the group and the model
Serves(id, group, model) ==
    /\ db[id].Status = ChannelStatusEnabled
    /\ group \in Range(Fields(db[id].Group))
    /\ model \in Range(Fields(db[id].Models))

\* C3: a channel returned by Next or NextByValidatedModel for (group, model) under the
\* caller's filters has no channel of a higher configured priority serving the same
\* (group, model) that is enabled, not cooling down for the model of the call and rejected
\* by no filter, also when the sticky mapping pointed at a channel of a lower tier.
C3_HighestTierFirst ==
    (call.op \in {"Next", "NextByValidatedModel"} /\ call.channel # 0) =>
        /\ Serves(call.channel, call.group, call.matched)
        /\ \A id \in ChannelIds :
              (Serves(id, call.group, call.matched)
                  /\ db[id].Priority > db[call.channel].Priority)
                  => ~IsValidChannel(id, call.filters, call.modelName, ChooserState)

\* NextByValidatedModel returned a channel of the higher tier although the session was
\* mapped to an eligible channel of a lower tier
C3_Witness ==
    /\ call.op = "NextByValidatedModel" /\ call.channel # 0
    /\ call.mapped # 0 /\ call.mapped # call.channel
    /\ Serves(call.mapped, call.group, call.matched)
    /\ db[call.mapped].Priority < db[call.channel].Priority
    /\ IsValidChannel(call.mapped, call.filters, call.modelName, ChooserState)

\* the chooser after the step
ChooserStateAfter ==
    [Channels |-> Channels', Cooldowns |-> Cooldowns', now |-> now', sticky |-> sticky',
     config |-> config', Rule |-> Rule', Match |-> Match']

\* C8: a SetCooldowns for (ch, A) changes IsInCooldown for no other (channel, model) pair,
\* and for every model B other than A it changes neither the eligibility of any channel
\* nor CountAvailableChannels of any group.
C8_ScopedPerChannelAndModel ==
    [][call'.op = "SetCooldowns" =>
        /\ \A id \in ChannelIds, B \in ChooserModels :
              <<id, B>> # <<call'.channelId, call'.modelName>> =>
                  IsInCooldown(Cooldowns', id, B, now') = IsInCooldown(Cooldowns, id, B, now)
        /\ \A B \in ChooserModels \ {call'.modelName} :
              /\ \A id \in ChannelIds :
                    IsValidChannel(id, <<>>, B, ChooserStateAfter)
                        = IsValidChannel(id, <<>>, B, ChooserState)
              /\ \A group \in ChooserGroups :
                    CountAvailableChannels(group, B, <<>>, ChooserStateAfter)
                        = CountAvailableChannels(group, B, <<>>, ChooserState)]_vars

\* a channel cooling down for m after SetCooldowns is eligible and counted for n*
C8_Witness ==
    /\ call.op = "SetCooldowns" /\ call.modelName = ModelM
    /\ IsInCooldown(Cooldowns, call.channelId, ModelM, now)
    /\ IsValidChannel(call.channelId, <<>>, ModelNStar, ChooserState)
    /\ Contains(call.channelId, Rule[GroupG][ModelNStar][1])
    /\ CountAvailableChannels(GroupG, ModelNStar, <<>>, ChooserState) > 0

-----------------------------------------------------------------------------
(* SpecRelay: one request through Relay, attempt by attempt *)

MaxRetryTimes == 2
MaxRelayTime == 2
MaxAutoDisabled == 1

\* the row of a channel in the channels table
ChannelOf(table, channelId) == table[CHOOSE i \in 1..Len(table) : table[i].Id = channelId]

\* provider-supplied reset timestamps: none, and one beyond the clock
ResetAts == {0, MaxRelayTime + 1}

\* the errors relay.send returns from the provider
SendErrors ==
    {[NoError EXCEPT !.StatusCode = StatusTooManyRequests, !.RateLimitResetAt = r] :
        r \in ResetAts}
    \cup {[NoError EXCEPT !.StatusCode = StatusInternalServerError],
          [NoError EXCEPT !.StatusCode = StatusGatewayTimeout],
          LocalErrorOf(StatusTooManyRequests)}

\* what the collaborators of RelayHandler return in one attempt
Outcomes ==
    {[tokenErr |-> TRUE, preQuotaErr |-> NoError, sendErr |-> NoError, sendDone |-> FALSE,
      CompletionTokens |-> 0, TextTokens |-> 0],
     [tokenErr |-> FALSE, preQuotaErr |-> [NoError EXCEPT !.StatusCode = StatusForbidden],
      sendErr |-> NoError, sendDone |-> FALSE, CompletionTokens |-> 0, TextTokens |-> 0]}
    \cup {[tokenErr |-> FALSE, preQuotaErr |-> NoError, sendErr |-> err, sendDone |-> done,
           CompletionTokens |-> tokens, TextTokens |-> text] :
          err \in SendErrors \cup {NoError}, done \in BOOLEAN, tokens \in {0, 1},
          text \in {0, 1}}
    \cup {[tokenErr |-> FALSE, preQuotaErr |-> NoError,
           sendErr |-> [NoError EXCEPT !.StatusCode = StatusUnauthorized],
           sendDone |-> FALSE, CompletionTokens |-> 0, TextTokens |-> 0]}

\* the gin context of a request before Relay runs
NewContext(tokenGroup, backupGroup, pinned, ignore, ginContext, startTime) ==
    [token_setting |-> [exists |-> FALSE, Enabled |-> FALSE, Models |-> <<>>],
     token_group |-> tokenGroup, token_backup_group |-> backupGroup, group |-> GroupG,
     original_token_group |-> <<>>, is_backupGroup |-> FALSE,
     channel_id |-> 0, original_model |-> <<>>, new_model |-> <<>>,
     billing_original_model |-> FALSE,
     specific_channel_id |-> pinned, specific_channel_id_ignore |-> ignore,
     skip_only_chat |-> FALSE,
     skip_channel_ids |-> [exists |-> FALSE, ids |-> <<>>],
     allow_channel_type |-> [exists |-> FALSE, types |-> <<>>],
     is_stream |-> FALSE, ginContext |-> ginContext, requestStartTime |-> startTime,
     total_channels_at_start |-> 0, actual_retry_times |-> 0, attempt_count |-> 0,
     first_non_auth_error |-> [exists |-> FALSE, err |-> NoError]]

NoAttempt == [kind |-> "none", failed |-> FALSE, local |-> FALSE, done |-> FALSE, tokens |-> 0,
              Consume |-> 0, Undo |-> 0]

NewRequest(originalModel, c) ==
    [pc |-> "setProvider", c |-> c, originalModel |-> originalModel, channel |-> 0,
     apiErr |-> NoError, i |-> 0,
     attempted |-> <<>>, consumes |-> 0, last |-> NoAttempt, mapped |-> 0, result |-> "",
     attemptCount |-> 0, log |-> <<>>, shouldRetryCalls |-> 0]

\* a structured log event of Relay with its attempt number, 0 when it carries none
Event(name, attempt) == [event |-> name, attempt |-> attempt]

\* the channel disabled before the request arrives: none, or the channel of group h
StartDisabled == {0, 2}

RequestModels == {ModelM, ModelN}
PinnedIds == {0, 1}

\* the channels tables of the relay: channels 1 and 2 share a tier, the others are in
\* it or above it
RelayTables == {t \in PriorityTables : t[1].Priority = 1 /\ t[2].Priority = 1}

\* the channels the goroutines of processChannelRelayError have disabled
AutoDisabled(channels) == {i \in DOMAIN channels : channels[i].Disable}

\* processChannelRelayError on the failed channel: it may be disabled before the caller
\* goes on
ProcessChannelRelayError(channels, channelId, disabled) ==
    IF disabled THEN Disable(channels, channelId) ELSE channels

\* the token's group and backup group
RequestGroups ==
    {[token_group |-> GroupG, token_backup_group |-> <<>>],
     [token_group |-> GroupH, token_backup_group |-> <<>>],
     [token_group |-> GroupH, token_backup_group |-> GroupG]}

InitRelay ==
    /\ now = 0
    /\ Cooldowns = EmptyMap
    /\ call = NoCall
    /\ track = EmptyMap
    /\ \E retryTimes \in 0..MaxRetryTimes : config = [DefaultConfig EXCEPT !.RetryTimes = retryTimes]
    /\ db \in RelayTables
    /\ Rule = LoadBuild(db, config.DefaultChannelWeight).Rule
    /\ \E channelId \in StartDisabled :
          Channels = Disable(LoadBuild(db, config.DefaultChannelWeight).Channels, channelId)
    /\ Match = LoadBuild(db, config.DefaultChannelWeight).Match
    /\ ModelGroup = LoadBuild(db, config.DefaultChannelWeight).ModelGroup
    /\ sticky = EmptyMap
    /\ \E originalModel \in RequestModels, groups \in RequestGroups, pinned \in PinnedIds,
          ginContext \in {session.ginContext : session \in Sessions} :
            rq = NewRequest(originalModel,
                            NewContext(groups.token_group, groups.token_backup_group, pinned,
                                       FALSE, ginContext, 0))
    /\ CooldownProcsUnused /\ LoadProcsUnused

relayFrame == <<Rule, Match, ModelGroup, db, call, track, setter, sweep, lock, loader,
                reader, config>>

\* the store outcomes a request with this context can meet
RedisOutcomes(ginContext) ==
    IF ginContext.isNil THEN {NoRedis} ELSE {[getOk |-> TRUE, setOk |-> TRUE], NoRedis}

\* the channel the session is mapped to when a selection reads the store, 0 for none
MappedChannel(ginContext, o) ==
    IF ginContext.isNil THEN 0
    ELSE GetStickySessionMapping(sticky, SessionHash, ChannelTypeClaudeCode, o)

\* time passes while an attempt is with the provider
RelayTick ==
    /\ rq.pc \in {"handler", "retry"}
    /\ now < MaxRelayTime
    /\ now' = now + 1
    /\ UNCHANGED <<Cooldowns, Channels, sticky, rq, relayFrame>>

\* relay.setProvider(relay.getOriginalModel()) before the first attempt
RelaySetProvider ==
    /\ rq.pc = "setProvider"
    /\ \E o \in RedisOutcomes(rq.c.ginContext) :
        \E p \in GetProvider(rq.c, rq.originalModel, db, ChooserState, o) :
            /\ sticky' = p.sticky
            /\ rq' = IF p.fail # "" \/ p.channel = 0
                     THEN [rq EXCEPT !.pc = "done", !.c = p.c, !.result = "provider_error"]
                     ELSE [rq EXCEPT !.pc = "handler", !.c = p.c, !.channel = p.channel,
                                     !.mapped = MappedChannel(rq.c.ginContext, o)]
            /\ UNCHANGED <<now, Cooldowns, Channels, relayFrame>>

\* the attempt record RelayHandler leaves
AttemptOf(outcome, h) ==
    [kind |-> IF outcome.tokenErr THEN "token_error"
              ELSE IF outcome.preQuotaErr # NoError THEN "prequota_error" ELSE "sent",
     failed |-> h.err # NoError,
     local |-> h.err.LocalError,
     done |-> h.done,
     tokens |-> IF outcome.tokenErr \/ outcome.preQuotaErr # NoError THEN 0
                ELSE CompletionTokensOf(outcome),
     Consume |-> h.Consume, Undo |-> h.Undo]

\* the status codes of an authentication failure
AuthStatusCodes == {StatusUnauthorized, StatusForbidden}

\* A variant that caches every non-auth error, also over an earlier one.
SetFirstNonAuthErrorOverwrites(c, apiErr) ==
    IF apiErr.StatusCode \notin {StatusUnauthorized, StatusForbidden}
    THEN [c EXCEPT !.first_non_auth_error = [exists |-> TRUE, err |-> apiErr]]
    ELSE c

\* the caching of the first non-auth error after a failed retry attempt
SetFirstNonAuthError(c, apiErr) ==
    IF apiErr.StatusCode \notin AuthStatusCodes /\ ~c.first_non_auth_error.exists
    THEN [c EXCEPT !.first_non_auth_error = [exists |-> TRUE, err |-> apiErr]]
    ELSE c

\* the evaluations of shouldRetry after one failed attempt: the test
\* done || !shouldRetry(...) evaluates it unless done is set, and the log call in its
\* body evaluates it again
ShouldRetryCalls(done, retryable) ==
    (IF done THEN 0 ELSE 1) + (IF done \/ ~retryable THEN 1 ELSE 0)

\* A variant that leaves without the final event when no retry is made.
FirstAttemptEventsNoExhausted(stop, actualRetryTimes) ==
    (IF stop THEN <<Event("retry_skip", 0)>> ELSE <<>>) \o <<Event("retry_start", 0)>>

\* the events Relay logs after a failed first attempt: retry_skip when no retry is
\* allowed, retry_start, and retry_exhausted at once when the loop body never runs
FirstAttemptEvents(stop, actualRetryTimes) ==
    (IF stop THEN <<Event("retry_skip", 0)>> ELSE <<>>)
    \o <<Event("retry_start", 0)>>
    \o (IF actualRetryTimes > 0 THEN <<>> ELSE <<Event("retry_exhausted", 1)>>)

\* the first RelayHandler and, when it fails, the preparation of the retry loop or,
\* with no retry left, the final error; the
\* goroutine of processChannelRelayError may disable the failed channel at once
RelayFirstAttempt ==
    /\ rq.pc = "handler"
    /\ \E outcome \in Outcomes,
          disabled \in IF Cardinality(AutoDisabled(Channels)) < MaxAutoDisabled
                       THEN BOOLEAN ELSE {FALSE} :
        LET h == RelayHandler(outcome)
            c == rq.c
            groupName == IF c.token_group = <<>> THEN c.group ELSE c.token_group
            after == ProcessChannelRelayError(Channels, rq.channel, disabled)
            totalChannelsAtStart ==
                CountAvailableChannels(groupName, c.new_model, <<>>,
                                       [ChooserState EXCEPT !.Channels = after])
            retryTimes == IF h.done \/ ~shouldRetry(c, h.err, ChannelOf(db, rq.channel).Type)
                          THEN 0 ELSE config.RetryTimes
            actualRetryTimes == ActualRetryTimes(retryTimes, totalChannelsAtStart)
            events == FirstAttemptEvents(
                          h.done \/ ~shouldRetry(c, h.err, ChannelOf(db, rq.channel).Type),
                          actualRetryTimes)
            attempted == [rq EXCEPT !.attempted = Append(@, rq.channel),
                                    !.consumes = @ + h.Consume,
                                    !.last = AttemptOf(outcome, h)]
        IN  IF h.err = NoError
            THEN /\ ~disabled
                 /\ rq' = [attempted EXCEPT !.pc = "done", !.result = "success"]
                 /\ Channels' = Channels
            ELSE /\ rq' = [attempted EXCEPT
                             !.pc = IF actualRetryTimes > 0 THEN "loop" ELSE "done",
                             !.result = IF actualRetryTimes > 0 THEN @ ELSE "error",
                             !.apiErr = h.err, !.i = actualRetryTimes,
                             !.log = @ \o events,
                             !.shouldRetryCalls =
                                 ShouldRetryCalls(h.done,
                                     shouldRetry(c, h.err, ChannelOf(db, rq.channel).Type)),
                             !.c = [c EXCEPT !.total_channels_at_start = totalChannelsAtStart,
                                             !.actual_retry_times = actualRetryTimes,
                                             !.attempt_count = 1,
                                             !.first_non_auth_error =
                                                 IF h.err.StatusCode \notin AuthStatusCodes
                                                 THEN [exists |-> TRUE, err |-> h.err]
                                                 ELSE @]]
                 /\ Channels' = after
    /\ UNCHANGED <<now, Cooldowns, sticky, relayFrame>>

\* A variant in which the selection at the head of the loop never returns.
RelayReselectStalls ==
    /\ rq.pc = "loop"
    /\ UNCHANGED vars

\* the head of a loop iteration: shouldCooldowns, the timeout check and setProvider;
\* a break leaves the loop for the final error
RelayReselect ==
    /\ rq.pc = "loop"
    /\ LET sc == shouldCooldowns(rq.c, rq.channel, rq.apiErr, Cooldowns, now, config)
           st == [ChooserState EXCEPT !.Cooldowns = sc.Cooldowns]
       IN  /\ Cooldowns' = sc.Cooldowns
           /\ IF RetryTimedOut(now, rq.c.requestStartTime, config)
              THEN /\ rq' = [rq EXCEPT !.pc = "done", !.result = "error", !.c = sc.c,
                                       !.apiErr = RetryTimeoutError,
                                       !.log = @ \o <<Event("retry_timeout", 0),
                                                      Event("retry_exhausted",
                                                            sc.c.attempt_count)>>]
                   /\ sticky' = sticky
              ELSE \E o \in RedisOutcomes(rq.c.ginContext) :
                     \E p \in GetProvider(sc.c, rq.originalModel, db, st, o) :
                        /\ sticky' = p.sticky
                        /\ rq' = IF p.fail # "" \/ p.channel = 0
                                 THEN [rq EXCEPT !.pc = "done", !.result = "error", !.c = p.c,
                                                 !.log = @ \o <<Event("retry_provider_error", 0),
                                                                Event("retry_exhausted",
                                                                      p.c.attempt_count)>>]
                                 ELSE [rq EXCEPT !.pc = "retry", !.channel = p.channel,
                                                 !.mapped = MappedChannel(rq.c.ginContext, o),
                                                 !.attemptCount = p.c.attempt_count,
                                                 !.c = [p.c EXCEPT !.attempt_count = @ + 1],
                                                 !.log = Append(@, Event("retry_attempt",
                                                                         p.c.attempt_count))]
    /\ UNCHANGED <<now, Channels, relayFrame>>

\* RelayHandler inside the loop, the tests that follow it and, when the loop ends,
\* the final error
RelayRetryAttempt ==
    /\ rq.pc = "retry"
    /\ \E outcome \in Outcomes,
          disabled \in IF Cardinality(AutoDisabled(Channels)) < MaxAutoDisabled
                       THEN BOOLEAN ELSE {FALSE} :
        LET h == RelayHandler(outcome)
            attempted == [rq EXCEPT !.attempted = Append(@, rq.channel),
                                    !.consumes = @ + h.Consume,
                                    !.last = AttemptOf(outcome, h)]
            stop == h.done \/ ~shouldRetry(rq.c, h.err, ChannelOf(db, rq.channel).Type)
            events == <<Event("retry_failed", rq.attemptCount)>>
                      \o (IF stop THEN <<Event("retry_stop_condition", rq.attemptCount)>>
                          ELSE <<>>)
                      \o (IF stop \/ rq.i - 1 <= 0
                          THEN <<Event("retry_exhausted", rq.c.attempt_count)>> ELSE <<>>)
        IN  IF h.err = NoError
            THEN /\ ~disabled
                 /\ rq' = [attempted EXCEPT !.pc = "done", !.result = "success",
                                            !.log = Append(@, Event("retry_success",
                                                                    rq.attemptCount))]
                 /\ Channels' = Channels
            ELSE /\ rq' = [attempted EXCEPT
                             !.pc = IF stop \/ rq.i - 1 <= 0 THEN "done" ELSE "loop",
                             !.result = IF stop \/ rq.i - 1 <= 0 THEN "error" ELSE @,
                             !.apiErr = h.err,
                             !.log = @ \o events,
                             !.c = SetFirstNonAuthError(@, h.err),
                             !.shouldRetryCalls =
                                 ShouldRetryCalls(h.done,
                                     shouldRetry(rq.c, h.err, ChannelOf(db, rq.channel).Type)),
                             !.i = IF stop THEN @ ELSE @ - 1]
                 /\ Channels' = ProcessChannelRelayError(Channels, rq.channel, disabled)
    /\ UNCHANGED <<now, Cooldowns, sticky, relayFrame>>

NextRelay ==
    \/ RelayTick
    \/ RelaySetProvider
    \/ RelayFirstAttempt
    \/ RelayReselect
    \/ RelayRetryAttempt

SpecRelay == InitRelay /\ [][NextRelay]_vars

\* the channels handed to the Provider so far, the one in flight included
HandedToProvider ==
    IF rq.pc \in {"handler", "retry"} THEN Append(rq.attempted, rq.channel) ELSE rq.attempted

\* the Provider attempts made after the first failed attempt, the one in flight included
Retries == IF Len(HandedToProvider) = 0 THEN 0 ELSE Len(HandedToProvider) - 1

\* C1: within one request no channel id is handed to the Provider twice, also when
\* the sticky mapping of the session points at a channel already attempted
C1_NoChannelTwice ==
    \A i, j \in 1..Len(HandedToProvider) :
        i # j => HandedToProvider[i] # HandedToProvider[j]

\* a retry is in flight on a fresh channel although the session was mapped to an
\* attempted one when the channel was reselected; the mapping is gone or replaced
C1_Witness ==
    /\ rq.pc = "retry"
    /\ rq.mapped # 0
    /\ Contains(rq.mapped, rq.attempted)
    /\ ~Contains(rq.channel, rq.attempted)
    /\ GetStickySessionMapping(sticky, SessionHash, ChannelTypeClaudeCode,
                               [getOk |-> TRUE, setOk |-> TRUE]) # rq.mapped

\* C2: the attempts after the first failed one never exceed
\* min(config.RetryTimes, totalChannelsAtStart), and the count taken after the first
\* failure is the one the request keeps
C2_RetriesBounded ==
    /\ Retries <= Min(config.RetryTimes, rq.c.total_channels_at_start)
    /\ rq.c.actual_retry_times <= Min(config.RetryTimes, rq.c.total_channels_at_start)

\* the channel count, smaller than RetryTimes, is what ended the retries
C2_Witness ==
    /\ rq.pc = "done"
    /\ rq.result = "error"
    /\ Retries >= 1
    /\ Retries = rq.c.total_channels_at_start
    /\ rq.c.total_channels_at_start < config.RetryTimes
    /\ shouldRetry(rq.c, rq.apiErr, ChannelOf(db, rq.channel).Type)

\* C4: an attempt that passed PreQuotaConsumption ends in exactly one of Consume and
\* Undo: Consume on success or on a failure with completion tokens, Undo on a failure
\* with none; an attempt stopped by token counting or PreQuotaConsumption calls neither
C4_ConsumeXorUndo ==
    /\ rq.last.kind = "sent" =>
          /\ rq.last.Consume + rq.last.Undo = 1
          /\ rq.last.Consume = 1 <=> (~rq.last.failed \/ rq.last.tokens > 0)
          /\ rq.last.Undo = 1 <=> (rq.last.failed /\ rq.last.tokens = 0)
    /\ rq.last.kind \in {"token_error", "prequota_error"} =>
          rq.last.Consume = 0 /\ rq.last.Undo = 0

\* a failed attempt that delivered tokens was charged and not refunded
C4_Witness ==
    /\ rq.last.kind = "sent"
    /\ rq.last.failed
    /\ rq.last.tokens > 0
    /\ rq.last.Consume = 1
    /\ rq.last.Undo = 0

\* C5: over all the attempts of one request Consume is called at most once
C5_ConsumeAtMostOnce == rq.consumes <= 1

-----------------------------------------------------------------------------
(* The weights of the loaded registry *)

\* the weight the table configures for a channel
ConfiguredWeight(id) == ChannelRow(id, ChannelStatusEnabled, 1).Weight

\* the tiers of the registry whose eligible channels are at least n
EligibleSets(n) ==
    {validChannels(Rule[g][m][t], <<>>, m, ChooserState) :
        <<g, m, t>> \in {x \in (DOMAIN Rule) \X ChooserModels \X (1..NumChannels) :
                            /\ x[2] \in DOMAIN Rule[x[1]]
                            /\ x[3] \in DOMAIN Rule[x[1]][x[2]]
                            /\ Len(validChannels(Rule[x[1]][x[2]][x[3]], <<>>, x[2],
                                                 ChooserState)) >= n}}

\* C11: after Load every channel configured with weight 0 carries the configured
\* default weight, no channel of the registry has weight 0, and the total weight of
\* every non-empty eligible set is at least 1
C11_ZeroWeightNormalized ==
    /\ \A id \in DOMAIN Channels :
          /\ Channels[id].Channel.Weight >= 1
          /\ ConfiguredWeight(id) = 0
                => Channels[id].Channel.Weight = config.DefaultChannelWeight
          /\ ConfiguredWeight(id) # 0 => Channels[id].Channel.Weight = ConfiguredWeight(id)
    /\ \A valid \in EligibleSets(1) : SumWeights(valid, ChooserState) >= 1

\* a Load has put the channel configured with weight 0 into a tier with another channel
C11_Witness ==
    /\ loader.gen >= 1 /\ loader.pc = "idle"
    /\ 1 \in DOMAIN Channels
    /\ ConfiguredWeight(1) = 0
    /\ \E valid \in EligibleSets(2) : Contains(1, valid)

\* the draws of rand.Intn(totalWeight) for which the loop returns the channel id
DrawsFor(valid, id) ==
    {r \in 0..(SumWeights(valid, ChooserState) - 1) : WeightedPick(valid, r, ChooserState) = id}

\* C12: for a tier with at least two eligible candidates, every draw r in
\* [0, total weight) makes the subtract-and-walk return an eligible candidate, never
\* none, and the number of draws that return a candidate is its weight
C12_ProportionalToWeight ==
    \A valid \in EligibleSets(2) :
        /\ \A r \in 0..(SumWeights(valid, ChooserState) - 1) :
              WeightedPick(valid, r, ChooserState) \in Range(valid)
        /\ \A id \in Range(valid) :
              Cardinality(DrawsFor(valid, id))
                  = Occurrences(id, valid) * Channels[id].Channel.Weight

\* a weighted draw returned the weight-3 candidate of a tier whose eligible candidates
\* weigh 1 and 3, and 3 of the 4 draws do so
C12_Witness ==
    /\ call.op = "Next" /\ call.filters = <<>>
    /\ \E valid \in EligibleSets(2) :
          /\ Len(valid) = 2
          /\ {Channels[id].Channel.Weight : id \in Range(valid)} = {1, 3}
          /\ \E id \in Range(valid) :
                /\ Channels[id].Channel.Weight = 3
                /\ Cardinality(DrawsFor(valid, id)) = 3
                /\ SumWeights(valid, ChooserState) = 4
                /\ call.channel = id

-----------------------------------------------------------------------------
(* The sticky lookup on the loaded registry *)

\* the key of the session's mapping for the session-affine channel type
StickyKey == <<SessionHash, ChannelTypeClaudeCode>>

\* the ids a stored mapping can hold: every channel of the registry and one that is not
\* in it
MappedIds == 1..(NumChannels + 1)

\* the chooser with the session mapped to id
ChooserStateMapped(id) ==
    [ChooserState EXCEPT !.sticky = [k \in {StickyKey} |-> id]]

\* the tiers of the registry, each with the model it is listed under
RegistryTiers ==
    {<<Rule[g][m][t], m>> :
        <<g, m, t>> \in {x \in (DOMAIN Rule) \X ChooserModels \X (1..NumChannels) :
                            /\ x[2] \in DOMAIN Rule[x[1]]
                            /\ x[3] \in DOMAIN Rule[x[1]][x[2]]}}

\* the mapped channel exists, is enabled, is in the tier, is not cooling down for the
\* model and is rejected by no filter
StickyUsable(id, channelIds, filters, modelName) ==
    /\ id \in DOMAIN Channels
    /\ ~Channels[id].Disable
    /\ Contains(id, channelIds)
    /\ ~IsInCooldown(Cooldowns, id, modelName, now)
    /\ ~IsSkip(filters, id, Channels[id])

\* C17: checkStickySession returns the mapped channel only if it exists, is enabled, is
\* in the candidate tier, is not cooling down for the requested model and is rejected by
\* no filter; whenever it has read a mapping and one of these fails, the mapping is
\* deleted and no sticky channel is returned.
C17_StickyOnlyWhenUsable ==
    \A tier \in RegistryTiers, filters \in ChooserFilters, session \in Sessions,
       id \in MappedIds :
        LET channelIds == tier[1]
            modelName == tier[2]
            st == ChooserStateMapped(id)
            r == checkStickySession(channelIds, filters, modelName, session.ginContext,
                                    st, session.o)
            read == /\ ~session.ginContext.isNil
                    /\ session.o.getOk
                    /\ Channels[channelIds[1]].Channel.Type = ChannelTypeClaudeCode
            usable == StickyUsable(id, channelIds, filters, modelName)
        IN  /\ r.channel # 0 => (read /\ r.channel = id /\ usable /\ r.sticky = st.sticky)
            /\ (read /\ ~usable) => (r.channel = 0 /\ StickyKey \notin DOMAIN r.sticky)
            /\ (read /\ usable) => r.channel = id

\* NextByValidatedModel read the mapping of a session whose channel was cooling down for
\* the model: the call returned no channel and the mapping is gone
C17_Witness ==
    /\ call.op = "NextByValidatedModel" /\ call.mapped # 0
    /\ IsInCooldown(Cooldowns, call.mapped, call.modelName, now)
    /\ ~Channels[call.mapped].Disable
    /\ call.channel = 0
    /\ StickyKey \notin DOMAIN sticky

-----------------------------------------------------------------------------
(* Disable and Enable on the loaded registry *)

\* the channels listed under (group, modelName), over all tiers
ListedChannels(group, modelName) ==
    UNION {Range(Rule[group][modelName][t]) : t \in DOMAIN Rule[group][modelName]}

\* a disabled channel is returned by no call, by weight or by a sticky mapping, and is
\* not counted
DisabledNeverChosen ==
    /\ (call.op \in {"Next", "NextByValidatedModel"} /\ call.channel # 0)
          => ~Channels[call.channel].Disable
    /\ \A group \in DOMAIN Rule, filters \in ChooserFilters :
          \A modelName \in DOMAIN Rule[group] :
              CountAvailableChannels(group, modelName, filters, ChooserState)
                  = Cardinality({id \in ListedChannels(group, modelName) :
                                    /\ ~Channels[id].Disable
                                    /\ ~IsInCooldown(Cooldowns, id, modelName, now)
                                    /\ ~IsSkip(filters, id, Channels[id])})

\* Disable lasts until Enable of the same channel
DisabledUntilEnable ==
    \A id \in ChannelIds :
        (Channels[id].Disable /\ ~(call'.op = "Enable" /\ call'.channelId = id))
            => Channels'[id].Disable

\* Enable makes the channel eligible again on the registry as it is, with no Load
EnableRestores ==
    call'.op = "Enable" =>
        /\ ~Channels'[call'.channelId].Disable
        /\ Rule' = Rule /\ Match' = Match
        /\ \A filters \in ChooserFilters, modelName \in ChooserModels :
              IsValidChannel(call'.channelId, filters, modelName, ChooserStateAfter)
                  <=> /\ ~IsInCooldown(Cooldowns, call'.channelId, modelName, now)
                      /\ ~IsSkip(filters, call'.channelId, Channels[call'.channelId])

-----------------------------------------------------------------------------
(* SpecClassify: shouldRetry applied to one error *)

ChannelTypeGemini == "gemini"

\* the status codes an attempt can end with
ClassifyStatusCodes ==
    {StatusOK, StatusNoContent, StatusTemporaryRedirect, StatusBadRequest,
     StatusUnauthorized, StatusNotFound, StatusRequestTimeout, StatusTooManyRequests,
     StatusInternalServerError, StatusBadGateway, StatusGatewayTimeout, StatusOriginTimeout}

\* the phrases shouldRetryBadRequest looks for; a message is the set of those it contains
RetryPhrases ==
    {"Your credit balance is too low", "Operation not allowed", "API key not valid"}

ClassifyErrors ==
    {[StatusCode |-> status, LocalError |-> localError, RateLimitResetAt |-> 0,
      Message |-> message, Param |-> param] :
        status \in ClassifyStatusCodes, localError \in BOOLEAN,
        message \in {{}} \cup {{p} : p \in RetryPhrases} \cup {RetryPhrases},
        param \in {"", "INVALID_ARGUMENT"}}

InitClassify ==
    /\ now = 0
    /\ Cooldowns = EmptyMap
    /\ track = EmptyMap
    /\ config = NoValue
    /\ \E apiErr \in ClassifyErrors, pinned \in PinnedIds, ignore \in BOOLEAN,
          channelType \in {ChannelTypeAnthropic, ChannelTypeBedrock, ChannelTypeGemini,
                           ChannelTypeOpenAI} :
            call = [op |-> "input", apiErr |-> apiErr, channelType |-> channelType,
                    c |-> [specific_channel_id |-> pinned,
                           specific_channel_id_ignore |-> ignore],
                    retry |-> FALSE]
    /\ RegistryUnused /\ CooldownProcsUnused /\ LoadProcsUnused /\ RelayUnused

\* shouldRetry(c, apiErr, channelType) returns
ClassifyShouldRetry ==
    /\ call.op = "input"
    /\ call' = [call EXCEPT !.op = "shouldRetry",
                            !.retry = shouldRetry(call.c, call.apiErr, call.channelType)]
    /\ UNCHANGED <<now, Cooldowns, track, config, registryVars, sticky, setter, sweep, lock,
                   loader, reader, rq>>

NextClassify == ClassifyShouldRetry

SpecClassify == InitClassify /\ [][NextClassify]_vars

\* the phrase that makes a 400 of this channel type retryable
AllowListed(channelType) ==
    CASE channelType = ChannelTypeAnthropic -> "Your credit balance is too low"
      [] channelType = ChannelTypeBedrock -> "Operation not allowed"
      [] OTHER -> "API key not valid"

\* C13: shouldRetry follows the ordered table: a local error is not retryable; a pinned
\* channel without the ignore flag is not retryable; otherwise 429 and 307 are
\* retryable; 408, 504 and 524 are not; 400 is retryable only with the message
\* allow-listed for the channel type; any other 5xx is retryable; 2xx is not; anything
\* else is retryable
C13_DecisionTable ==
    call.op = "shouldRetry" =>
        LET e == call.apiErr
            status == e.StatusCode
            pinnedHere == call.c.specific_channel_id > 0 /\ ~call.c.specific_channel_id_ignore
            open == ~e.LocalError /\ ~pinnedHere
        IN  /\ e.LocalError => ~call.retry
            /\ pinnedHere => ~call.retry
            /\ (open /\ status \in {429, 307}) => call.retry
            /\ (open /\ status \in {408, 504, 524}) => ~call.retry
            /\ (open /\ status = 400 /\ call.retry) => AllowListed(call.channelType) \in e.Message
            /\ (open /\ status = 400 /\ call.channelType \in {ChannelTypeAnthropic, ChannelTypeBedrock}
                     /\ AllowListed(call.channelType) \in e.Message) => call.retry
            /\ (open /\ status \in 500..599 \ {504, 524}) => call.retry
            /\ (open /\ status \in 200..299) => ~call.retry
            /\ (open /\ status \notin (200..299) \cup (500..599) \cup {429, 307, 408, 400})
                  => call.retry

\* a timeout status that is also a 5xx was classified, and not as retryable
C13_Witness ==
    /\ call.op = "shouldRetry"
    /\ ~call.apiErr.LocalError
    /\ call.c.specific_channel_id = 0
    /\ call.apiErr.StatusCode = StatusGatewayTimeout
    /\ ~call.retry

-----------------------------------------------------------------------------
(* Local errors in Relay *)

\* C14: an attempt that fails with a local error ends the request: no Provider attempt
\* follows it and no cooldown entry exists for its channel, also when its status is 429
C14_LocalErrorEndsRequest ==
    rq.pc # "none" /\ rq.last.local =>
        /\ rq.pc = "done"
        /\ rq.result = "error"
        /\ rq.attempted[Len(rq.attempted)] = rq.channel
        /\ \A modelName \in RequestModels \cup {rq.c.new_model} :
              CooldownKey(rq.channel, modelName) \notin DOMAIN Cooldowns

\* the first retry of two failed with a local 429 that relay.send handed back
C14_Witness ==
    /\ rq.pc = "done"
    /\ rq.last.local
    /\ rq.last.kind = "sent"
    /\ rq.apiErr = LocalErrorOf(StatusTooManyRequests)
    /\ Len(rq.attempted) = 2
    /\ rq.i = 2

-----------------------------------------------------------------------------
(* SpecRateLimit: shouldCooldowns applied to one failed attempt *)

\* reset timestamps a provider supplies: none (0), past, present and future ones
RateLimitResetAts == 0..(MaxTime + MaxDuration)

\* the configured default cooldown
CooldownSeconds == 1..(MaxDuration + 1)

InitRateLimit ==
    /\ now \in 0..MaxTime
    /\ Cooldowns = EmptyMap
    /\ track = EmptyMap
    /\ \E seconds \in CooldownSeconds :
          config = [DefaultConfig EXCEPT !.RetryCooldownSeconds = seconds]
    /\ \E status \in {StatusTooManyRequests, StatusInternalServerError},
          resetAt \in RateLimitResetAts, channelId \in 1..2, modelName \in RequestModels :
            call = [op |-> "input", channelId |-> channelId,
                    apiErr |-> [NoError EXCEPT !.StatusCode = status,
                                               !.RateLimitResetAt = resetAt],
                    c |-> [NewContext(GroupG, <<>>, 0, FALSE, NilContext, 0)
                              EXCEPT !.new_model = modelName, !.channel_id = channelId],
                    cooldownApplied |-> FALSE]
    /\ RegistryUnused /\ CooldownProcsUnused /\ LoadProcsUnused /\ RelayUnused

\* shouldCooldowns(c, channel, apiErr) returns
RateLimitShouldCooldowns ==
    /\ call.op = "input"
    /\ LET r == shouldCooldowns(call.c, call.channelId, call.apiErr, Cooldowns, now, config)
       IN  /\ Cooldowns' = r.Cooldowns
           /\ call' = [call EXCEPT !.op = "shouldCooldowns", !.c = r.c,
                                   !.cooldownApplied = r.cooldownApplied]
    /\ UNCHANGED <<now, track, config, registryVars, sticky, setter, sweep, lock, loader,
                   reader, rq>>

NextRateLimit == RateLimitShouldCooldowns

SpecRateLimit == InitRateLimit /\ [][NextRateLimit]_vars

\* the seconds for which shouldCooldowns has cooled the channel of the call down,
\* counted from now; Absent when there is no entry
AppliedDuration ==
    IF StoredExpiry(Cooldowns, call.channelId, call.c.new_model) = Absent THEN Absent
    ELSE StoredExpiry(Cooldowns, call.channelId, call.c.new_model) - now

\* C15 as stated: with a reset timestamp the duration is max(resetAt - now, default),
\* without one it is the default
C15_MaxOfResetAndDefault ==
    (call.op = "shouldCooldowns" /\ call.apiErr.StatusCode = StatusTooManyRequests) =>
        AppliedDuration =
            IF call.apiErr.RateLimitResetAt = 0 THEN config.RetryCooldownSeconds
            ELSE IF call.apiErr.RateLimitResetAt - now > config.RetryCooldownSeconds
            THEN call.apiErr.RateLimitResetAt - now
            ELSE config.RetryCooldownSeconds

\* C15, amended: a reset timestamp in the future gives the duration resetAt - now, also
\* when that is shorter than the configured default; a timestamp that is not in the
\* future, or none, gives the configured default
C15_ResetElseDefault ==
    (call.op = "shouldCooldowns" /\ call.apiErr.StatusCode = StatusTooManyRequests) =>
        AppliedDuration =
            IF call.apiErr.RateLimitResetAt > now
            THEN call.apiErr.RateLimitResetAt - now
            ELSE config.RetryCooldownSeconds

\* a 429 whose reset timestamp is nearer than the default cooldown was applied
C15_Witness ==
    /\ call.op = "shouldCooldowns"
    /\ call.apiErr.StatusCode = StatusTooManyRequests
    /\ call.apiErr.RateLimitResetAt > now
    /\ call.apiErr.RateLimitResetAt - now < config.RetryCooldownSeconds
    /\ AppliedDuration = call.apiErr.RateLimitResetAt - now

-----------------------------------------------------------------------------
(* The retry ceiling of Relay *)

\* the seconds since the request started
Elapsed == now - rq.c.requestStartTime

\* C16 as stated: when a failed attempt has returned after the retry ceiling, the request
\* ends with the made-up timeout error, whether or not retry budget remains
C16_TimeoutErrorAlways ==
    (rq.pc = "done" /\ rq.last.failed /\ Elapsed > config.RetryTimeOut)
        => rq.apiErr = RetryTimeoutError

\* C16, amended: when a failed attempt has returned after the retry ceiling and a retry
\* is due (the error is retryable, done is false and budget remains), no further
\* Provider attempt is started and the request ends with the made-up timeout error
C16_TimeoutWhenRetryDue ==
    [][(rq.pc = "loop" /\ Elapsed > config.RetryTimeOut)
          => /\ rq'.pc = "done"
             /\ rq'.result = "error"
             /\ rq'.attempted = rq.attempted
             /\ rq'.apiErr = RetryTimeoutError]_vars

\* the ceiling ended a request whose last error was retryable with budget left
C16_Witness ==
    /\ rq.pc = "done"
    /\ rq.apiErr = RetryTimeoutError
    /\ rq.last.failed /\ ~rq.last.local
    /\ rq.i >= 1
    /\ Elapsed > config.RetryTimeOut

-----------------------------------------------------------------------------
(* The log events of Relay *)

\* the events of the request that carry the name
Logged(name) == {k \in DOMAIN rq.log : rq.log[k].event = name}

\* C19: the retry_success event carries the ordinal of the successful Provider attempt
\* within the request: the first retry succeeding after the failed first attempt
\* reports attempt 2.
C19_SuccessAttemptOrdinal ==
    \A k \in Logged("retry_success") : rq.log[k].attempt = Len(rq.attempted)

\* the group CountAvailableChannels is asked about
RequestGroup == IF rq.c.token_group = <<>> THEN rq.c.group ELSE rq.c.token_group

\* every channel listed for (group, modelName) is disabled
AllDisabled(group, modelName) ==
    /\ group \in DOMAIN Rule
    /\ modelName \in DOMAIN Rule[group]
    /\ ListedChannels(group, modelName) # {}
    /\ \A id \in ListedChannels(group, modelName) : Channels[id].Disable

\* Next reports no channel and CountAvailableChannels returns 0
NoChannelAvailable(group, modelName) ==
    /\ \A r \in Next(group, modelName, <<>>, ChooserState) : r.channel = 0
    /\ CountAvailableChannels(group, modelName, <<>>, ChooserState) = 0

\* C20 as stated: when every channel for (group, model) is disabled, Next reports no
\* channel, CountAvailableChannels returns 0, and a request for that model handled by
\* Relay performs zero retries and emits a retry_skip event.
C20_AllDisabledSkip ==
    (rq.pc = "done" /\ AllDisabled(RequestGroup, rq.originalModel)) =>
        /\ NoChannelAvailable(RequestGroup, rq.originalModel)
        /\ Retries = 0
        /\ Logged("retry_skip") # {}

\* with every channel of a group and model disabled the chooser has nothing to return,
\* and a request that made no Provider attempt has logged no event
NothingToChoose ==
    /\ \A group \in DOMAIN Rule :
          \A modelName \in DOMAIN Rule[group] :
              AllDisabled(group, modelName) => NoChannelAvailable(group, modelName)
    /\ (rq.pc = "done" /\ rq.attempted = <<>>) => rq.log = <<>>

\* the first selection of a request with no pinned channel and no backup group fails
\* when every channel of its group and model is disabled
NoFirstAttempt ==
    (/\ rq.pc = "setProvider"
     /\ rq.c.specific_channel_id = 0
     /\ rq.c.token_backup_group = <<>>
     /\ AllDisabled(rq.c.token_group, rq.originalModel))
        => /\ rq'.pc = "done" /\ rq'.result = "provider_error"
           /\ rq'.attempted = <<>>

\* the first attempt has failed and every channel of the group and model is disabled
\* when the retry budget is computed: the request ends there
NoRetryBudget ==
    (/\ rq.pc = "handler"
     /\ rq'.last.failed
     /\ AllDisabled(RequestGroup, rq.originalModel)')
        => /\ rq'.pc = "done" /\ rq'.result = "error"
           /\ rq'.attempted = <<rq.channel>>
           /\ rq'.log = (IF rq'.last.done
                            \/ ~shouldRetry(rq.c, rq'.apiErr, ChannelOf(db, rq.channel).Type)
                         THEN <<Event("retry_skip", 0)>> ELSE <<>>)
                        \o <<Event("retry_start", 0), Event("retry_exhausted", 1)>>

\* C20: when every channel for (group, model) is disabled, Next reports no channel and
\* CountAvailableChannels returns 0; a request for that model handled by Relay that
\* finds them disabled at its first selection makes no Provider attempt and logs no
\* event, and one that finds them disabled after its first attempt has failed performs
\* zero retries and logs retry_start and retry_exhausted with one attempt, preceded by
\* retry_skip only when the response had begun or the error is not retryable.
C20_AllDisabledNoRetry ==
    /\ []NothingToChoose
    /\ [][NoFirstAttempt /\ NoRetryBudget]_vars

\* the only channel of the group was disabled after its attempt failed with a retryable
\* error: retries were configured, none was made and no retry_skip was logged
C20_Witness ==
    /\ rq.pc = "done" /\ AllDisabled(RequestGroup, rq.originalModel)
    /\ config.RetryTimes > 0
    /\ rq.last.failed /\ ~rq.last.done
    /\ shouldRetry(rq.c, rq.apiErr, ChannelOf(db, rq.channel).Type)
    /\ Retries = 0
    /\ Logged("retry_skip") = {}
    /\ Logged("retry_exhausted") # {}

-----------------------------------------------------------------------------
(* SpecProvider: GetProvider applied to one request context *)

\* the groups a token or a user can name: none, and the groups of the registry
ContextGroups == {<<>>, GroupG, GroupH}

InitProvider ==
    /\ now = 0
    /\ Cooldowns = EmptyMap
    /\ track = EmptyMap
    /\ config = DefaultConfig
    /\ db \in RelayTables
    /\ Rule = LoadBuild(db, config.DefaultChannelWeight).Rule
    /\ \E off \in SUBSET ChannelIds :
          Channels = [id \in ChannelIds |->
                        [LoadBuild(db, config.DefaultChannelWeight).Channels[id]
                            EXCEPT !.Disable = id \in off]]
    /\ Match = LoadBuild(db, config.DefaultChannelWeight).Match
    /\ ModelGroup = LoadBuild(db, config.DefaultChannelWeight).ModelGroup
    /\ sticky = EmptyMap
    /\ \E tokenGroup \in ContextGroups, backupGroup \in ContextGroups,
          userGroup \in ContextGroups, modelName \in RequestModels :
            call = [op |-> "input", modelName |-> modelName,
                    c |-> [NewContext(tokenGroup, backupGroup, 0, FALSE, NilContext, 0)
                              EXCEPT !.group = userGroup],
                    channel |-> 0, fail |-> "", out |-> NewContext(<<>>, <<>>, 0, FALSE, NilContext, 0)]
    /\ CooldownProcsUnused /\ LoadProcsUnused /\ RelayUnused

\* GetProvider(c, modelName) returns
ProviderGetProvider ==
    /\ call.op = "input"
    /\ \E p \in GetProvider(call.c, call.modelName, db, ChooserState, NoRedis) :
          /\ call' = [call EXCEPT !.op = "GetProvider", !.channel = p.channel,
                                  !.fail = p.fail, !.out = p.c]
          /\ sticky' = p.sticky
    /\ UNCHANGED <<now, Cooldowns, track, config, registryVars, setter, sweep, lock, loader,
                   reader, rq>>

NextProvider == ProviderGetProvider

SpecProvider == InitProvider /\ [][NextProvider]_vars

\* the group matches the model of the call and has a channel to give
Yields(group) ==
    /\ group # <<>>
    /\ \E matched \in GetMatchedModelName(group, call.modelName, ChooserState) :
          /\ matched.err = ""
          /\ \E f \in fetchChannel([call.c EXCEPT !.token_group = group], matched.name, db,
                                    ChooserState, NoRedis) : f.err = ""

\* the first group of the chain that yields a channel, <<>> when none does
FirstYielding(chain) ==
    IF \E i \in 1..Len(chain) : Yields(chain[i])
    THEN chain[CHOOSE i \in 1..Len(chain) :
                  Yields(chain[i]) /\ \A j \in 1..(i - 1) : ~Yields(chain[j])]
    ELSE <<>>

\* GetProvider used the first yielding group of the chain, or returned no channel when
\* none yields, with an error unless the chain names no group at all
UsesFirstOf(chain) ==
    call.op = "GetProvider" =>
        IF FirstYielding(chain) = <<>>
        THEN /\ call.channel = 0
             /\ call.fail # "" <=> \E i \in 1..Len(chain) : chain[i] # <<>>
        ELSE /\ call.channel # 0 /\ call.fail = ""
             /\ call.out.token_group = FirstYielding(chain)

-----------------------------------------------------------------------------
(* SpecRelayLive: Relay when every Provider call and every selection returns *)

\* each step of the request is taken once it can be; the clock is free to stand still
RelayFairness ==
    /\ WF_vars(RelaySetProvider)
    /\ WF_vars(RelayFirstAttempt)
    /\ WF_vars(RelayReselect)
    /\ WF_vars(RelayRetryAttempt)

\* the requests followed to their end: no session context, every channel enabled at the
\* start
InitRelayLive ==
    /\ InitRelay
    /\ rq.c.ginContext.isNil
    /\ \A id \in DOMAIN Channels : ~Channels[id].Disable

SpecRelayLive == InitRelayLive /\ [][NextRelay]_vars /\ RelayFairness

\* the request has ended with a response or a final error
Terminal ==
    /\ rq.pc = "done"
    /\ rq.result \in {"success", "error", "provider_error"}

\* C22: every request handled by Relay reaches a terminal state, a success response or
\* a final error, after finitely many steps and stays there, whatever errors the
\* Provider returns and whichever channels are disabled meanwhile.
C22_RelayTerminates == <>[]Terminal

\* a request that used its whole retry budget on failing attempts has ended
C22_Witness ==
    /\ Terminal /\ rq.result = "error"
    /\ Retries = MaxRetryTimes
    /\ rq.last.failed

-----------------------------------------------------------------------------
(* The skip-list and the cooldowns a request leaves behind *)

\* the channels whose attempt has failed
FailedChannels ==
    IF rq.last.failed \/ rq.attempted = <<>> THEN rq.attempted
    ELSE SubSeq(rq.attempted, 1, Len(rq.attempted) - 1)

\* skip_channel_ids of the request
SkipChannelIds == IF rq.c.skip_channel_ids.exists THEN rq.c.skip_channel_ids.ids ELSE <<>>

\* the head of a loop iteration ran after the last attempt and ended the request
EndedAtLoopHead == Logged("retry_timeout") \cup Logged("retry_provider_error") # {}

\* C23 as stated: every failed attempt, whatever its classification and whether or not
\* a retry follows, has its channel id in skip_channel_ids when the request ends.
C23_EveryFailedChannelSkipped ==
    rq.pc = "done" => \A k \in DOMAIN FailedChannels : Contains(FailedChannels[k], SkipChannelIds)

\* C23: the channel of a failed attempt is in skip_channel_ids before the next selection
\* of the request; the channel of the failed attempt after which no loop iteration
\* starts (no retry budget left, done, or a not-retryable error) is never added.
C23_SkippedBeforeReselection ==
    /\ rq.pc \in {"retry", "done"} =>
          \A k \in DOMAIN FailedChannels :
              (k < Len(rq.attempted) \/ rq.pc = "retry" \/ EndedAtLoopHead)
                  <=> Contains(FailedChannels[k], SkipChannelIds)
    /\ rq.pc = "loop" =>
          \A k \in DOMAIN FailedChannels :
              k < Len(rq.attempted) <=> Contains(FailedChannels[k], SkipChannelIds)

\* two attempts failed with retryable errors and used the retry budget up: the first
\* channel is in the skip-list, the second is not
C23_Witness ==
    /\ rq.pc = "done" /\ rq.last.failed /\ ~rq.last.done
    /\ Len(rq.attempted) = 2
    /\ shouldRetry(rq.c, rq.apiErr, ChannelOf(db, rq.channel).Type)
    /\ Contains(rq.attempted[1], SkipChannelIds)
    /\ ~Contains(rq.attempted[2], SkipChannelIds)

\* C24: an attempt that fails with status 429 and is classified retryable leaves an
\* active cooldown for its channel and the model when the request ends, also when it is
\* the last attempt the retry budget allows or the budget is 0.
C24_RateLimitAlwaysCools ==
    (/\ rq.pc = "done" /\ rq.last.failed /\ ~rq.last.done
     /\ rq.apiErr.StatusCode = StatusTooManyRequests /\ ~rq.apiErr.LocalError
     /\ shouldRetry(rq.c, rq.apiErr, ChannelOf(db, rq.channel).Type))
        => IsInCooldown(Cooldowns, rq.channel, rq.c.new_model, now)

-----------------------------------------------------------------------------
(* The model name of cooldowns and counts *)

\* the names under which selection looks the requested model up in the group in use
SelectionNames ==
    {matched.name : matched \in {x \in GetMatchedModelName(rq.c.token_group, rq.originalModel,
                                                           ChooserState) : x.err = ""}}

\* the channel of the latest failed attempt
LastFailedChannel == rq.attempted[Len(rq.attempted)]

\* the channel whose 429 has just been answered with a cooldown is returned by no
\* selection for the requested model while a cooldown of it is active
CooledChannelNotSelected ==
    (/\ rq.pc = "retry"
     /\ rq.apiErr.StatusCode = StatusTooManyRequests /\ ~rq.apiErr.LocalError
     /\ \E modelName \in RequestModels \cup ChooserModels :
            IsInCooldown(Cooldowns, LastFailedChannel, modelName, now))
        => \A name \in SelectionNames :
              \A r \in NextByValidatedModel(rq.c.token_group, name, NilContext, <<>>,
                                            ChooserState, NoRedis) :
                  r.channel # LastFailedChannel

\* the retry budget was sized with the number of eligible channels that serve the
\* requested model
BudgetCountsRequestedModel ==
    (/\ rq.pc = "loop" \/ (rq.pc = "done" /\ ~EndedAtLoopHead)
     /\ Len(rq.attempted) = 1 /\ rq.last.failed)
        => \A name \in SelectionNames :
              rq.c.total_channels_at_start
                  = CountAvailableChannels(rq.c.token_group, name, <<>>, ChooserState)

\* C25: cooldowns are set and channels are counted under the name selection uses: after
\* channel A failed a request for model M with a retryable 429, no selection for M in
\* the group returns A until the cooldown expires, and the retry budget counts the
\* channels that serve M, also when the channel's mapping renames M or M was resolved by
\* a wildcard.
C25_SameNameForCooldownAndSelection ==
    CooledChannelNotSelected /\ BudgetCountsRequestedModel

-----------------------------------------------------------------------------
(* CountAvailableChannels and selection *)

\* the channels a call can return
Returned(results) == {r.channel : r \in results} \ {0}

\* the channels listed under exactly the name of the call, in any tier, that are
\* enabled, not cooling down for that name and rejected by no filter
CountedChannels ==
    IF call.group \in DOMAIN Rule /\ call.modelName \in DOMAIN Rule[call.group]
    THEN {id \in ListedChannels(call.group, call.modelName) :
             /\ ~Channels[id].Disable
             /\ ~IsInCooldown(Cooldowns, id, call.modelName, now)
             /\ ~IsSkip(call.filters, id, Channels[id])}
    ELSE {}

\* C26 as stated: CountAvailableChannels equals the number of distinct channels Next and
\* NextByValidatedModel could return for the same arguments, also for names selection
\* resolves by matching, and it is 0 exactly when selection reports no channel.
C26_CountEqualsSelectable ==
    call.op = "CountAvailableChannels" =>
        /\ call.count = Cardinality(Returned(Next(call.group, call.modelName, call.filters,
                                                   ChooserState)))
        /\ call.count = Cardinality(Returned(NextByValidatedModel(call.group, call.modelName,
                                                 NilContext, call.filters, ChooserState,
                                                 NoRedis)))

\* the count is the number of eligible channels over all the tiers of the exact name;
\* what NextByValidatedModel can return is among them, and is nothing exactly when the
\* count is 0
CountsAllTiers ==
    call.op = "CountAvailableChannels" =>
        LET returnable == Returned(NextByValidatedModel(call.group, call.modelName, NilContext,
                                                        call.filters, ChooserState, NoRedis))
        IN  /\ call.count = Cardinality(CountedChannels)
            /\ returnable \subseteq CountedChannels
            /\ call.count = 0 <=> returnable = {}

\* the call changes nothing of the chooser
CountChangesNothing ==
    call'.op = "CountAvailableChannels" =>
        UNCHANGED <<now, Cooldowns, Channels, Rule, Match, ModelGroup, sticky>>

\* C26: CountAvailableChannels is the number of channels listed under exactly the given
\* name, over all tiers, that are enabled, not cooling down and rejected by no filter:
\* the channels NextByValidatedModel can return are among them and the count is 0
\* exactly when it can return none; names that only matching resolves count 0; the call
\* changes no registry, cooldown or sticky-session state.
C26_CountOverAllTiers ==
    /\ []CountsAllTiers
    /\ [][CountChangesNothing]_vars

\* two tiers with eligible channels: the count covers both, selection only the upper
C26_Witness ==
    /\ call.op = "CountAvailableChannels"
    /\ call.group \in DOMAIN Rule /\ call.modelName \in DOMAIN Rule[call.group]
    /\ Len(Rule[call.group][call.modelName]) > 1
    /\ call.count > Cardinality(Returned(NextByValidatedModel(call.group, call.modelName,
                                             NilContext, call.filters, ChooserState, NoRedis)))
    /\ Returned(NextByValidatedModel(call.group, call.modelName, NilContext, call.filters,
                                     ChooserState, NoRedis)) # {}

-----------------------------------------------------------------------------
(* Reselection that finds no channel *)

\* the step in which the loop head, within the retry ceiling, ends the request: its
\* setProvider has failed
ReselectionFails ==
    /\ rq.pc = "loop" /\ rq'.pc = "done"
    /\ Elapsed <= config.RetryTimeOut

\* C27 as stated: when reselection after a retryable failure finds no eligible channel
\* the request ends and the error returned to the caller is an "exhausted" error, not
\* the previous attempt's raw upstream error.
C27_ExhaustedErrorReturned ==
    [][ReselectionFails => (rq'.result = "error" /\ rq'.apiErr # rq.apiErr)]_vars

\* C27: when reselection after a retryable failure finds no eligible channel the request
\* ends with no further attempt, retry_provider_error and retry_exhausted are logged,
\* and the error returned to the caller is the previous attempt's error, unchanged.
C27_LastErrorReturned ==
    [][ReselectionFails =>
        /\ rq'.result = "error"
        /\ rq'.apiErr = rq.apiErr
        /\ rq'.attempted = rq.attempted
        /\ rq'.log = rq.log \o <<Event("retry_provider_error", 0),
                                  Event("retry_exhausted", rq.c.attempt_count)>>]_vars

\* the request ended at a reselection that found no channel, with the provider's error
\* of the attempt before
C27_Witness ==
    /\ rq.pc = "done" /\ rq.result = "error"
    /\ Logged("retry_provider_error") # {}
    /\ rq.last.failed /\ rq.last.kind = "sent"
    /\ rq.apiErr \in SendErrors /\ ~rq.apiErr.LocalError

-----------------------------------------------------------------------------
(* The state machine of Relay *)

\* the step is a Provider attempt: RelayHandler has run on rq.channel
AttemptStep == rq'.attempted # rq.attempted

\* the attempt of the step succeeded, or failed with done set or with an error that is
\* not retryable: a local error, a gateway timeout, or whatever shouldRetry rejects
AttemptIsFinal ==
    \/ ~rq'.last.failed
    \/ rq'.last.done
    \/ rq'.last.local
    \/ rq'.apiErr.StatusCode = StatusGatewayTimeout
    \/ ~shouldRetry(rq.c, rq'.apiErr, ChannelOf(db, rq.channel).Type)

\* SELECT -> ATTEMPT: an attempt is made only on the channel a selection has just
\* returned, and only time passes between the two
AttemptFollowsSelection ==
    /\ AttemptStep =>
          /\ rq.pc \in {"handler", "retry"}
          /\ rq'.attempted = Append(rq.attempted, rq.channel)
    /\ (rq'.pc \in {"handler", "retry"} /\ rq' # rq) =>
          /\ rq.pc = IF rq'.pc = "handler" THEN "setProvider" ELSE "loop"
          /\ rq'.channel # 0
          /\ rq'.channel = rq'.c.channel_id
          /\ rq'.attempted = rq.attempted

\* ATTEMPT -> SUCCESS, CLASSIFY -> FATAL: a final attempt ends the request, and an
\* ended request takes no step
FinalAttemptEnds ==
    /\ (AttemptStep /\ AttemptIsFinal) =>
          /\ rq'.pc = "done"
          /\ rq'.result = IF rq'.last.failed THEN "error" ELSE "success"
    /\ rq.pc = "done" => rq' = rq

\* C28: Relay follows SELECT -> ATTEMPT -> {SUCCESS | CLASSIFY}, CLASSIFY -> {RESELECT ->
\* ATTEMPT | FATAL}: after an attempt that succeeds, or fails with done = true or a
\* not-retryable classification, there is no further selection and no further Provider
\* attempt in the request, and every Provider attempt is immediately preceded by a
\* successful channel selection.
C28_StateMachine == [][AttemptFollowsSelection /\ FinalAttemptEnds]_vars

\* a retry attempt on a reselected channel failed with a gateway timeout, which is not
\* retryable, while retry budget was left: the request ended there
C28_Witness ==
    /\ rq.pc = "done" /\ rq.result = "error"
    /\ Len(rq.attempted) = 2
    /\ rq.i > 1
    /\ rq.last.failed /\ ~rq.last.done
    /\ rq.apiErr.StatusCode = StatusGatewayTimeout
    /\ Logged("retry_stop_condition") # {}

-----------------------------------------------------------------------------
(* The retry events of a request *)

\* the first attempt has been made and has failed
FirstAttemptFailed ==
    /\ Len(rq.attempted) >= 1
    /\ ~(Len(rq.attempted) = 1 /\ rq.result = "success")

\* the events logged after the k-th retry_attempt and before the next one
EventsOfRetry(k) ==
    LET starts == Logged("retry_attempt")
        from == CHOOSE j \in starts : Cardinality({x \in starts : x <= j}) = k
        later == {x \in starts : x > from}
        to == IF later = {} THEN Len(rq.log) + 1
              ELSE CHOOSE x \in later : \A y \in later : x <= y
    IN  {j \in DOMAIN rq.log : from < j /\ j < to}

\* the outcome events among a set of log positions
OutcomeEvents(positions) ==
    {j \in positions : rq.log[j].event \in {"retry_success", "retry_failed"}}

\* retry_start is logged once, ahead of every retry_attempt
StartLoggedOnce ==
    /\ Cardinality(Logged("retry_start")) = 1
    /\ \A s \in Logged("retry_start"), a \in Logged("retry_attempt") : s < a

\* one retry_attempt per retry handed to the Provider, and one outcome event after each
\* retry the Provider has answered
EachRetryLogged ==
    /\ Cardinality(Logged("retry_attempt")) = Retries
    /\ \A k \in 1..Retries :
          Cardinality(OutcomeEvents(EventsOfRetry(k))) =
              IF k = Retries /\ rq.pc = "retry" THEN 0 ELSE 1
    /\ rq.pc = "retry" => rq.log[Len(rq.log)].event = "retry_attempt"

\* the request ends with retry_success or with retry_exhausted, as its last event, and
\* logs neither before its end
EndsWithOneFinalEvent ==
    LET final == Logged("retry_success") \cup Logged("retry_exhausted")
    IN  IF rq.pc = "done" THEN final = {Len(rq.log)} ELSE final = {}

\* C29: for a request whose first attempt fails, retry_start is logged exactly once and
\* before any retry_attempt; each retry attempt is preceded by exactly one retry_attempt
\* event and followed by exactly one of retry_success and retry_failed; the request
\* ends with exactly one of retry_success and retry_exhausted.
C29_RetryEvents ==
    IF FirstAttemptFailed
    THEN StartLoggedOnce /\ EachRetryLogged /\ EndsWithOneFinalEvent
    ELSE rq.log = <<>>

\* a request whose first attempt and first retry failed and whose second retry succeeded
C29_Witness ==
    /\ rq.pc = "done" /\ rq.result = "success"
    /\ Len(rq.attempted) = 3
    /\ Cardinality(Logged("retry_failed")) = 1
    /\ Cardinality(Logged("retry_success")) = 1

-----------------------------------------------------------------------------
(* The evaluations of the error classifier *)

\* C30: shouldRetry is evaluated exactly once per failed attempt, so the provider status
\* metric it records is recorded exactly once per failed attempt, on the retry path and
\* on the stop and skip paths.
C30_ShouldRetryOncePerFailedAttempt ==
    (rq.last.failed /\ rq.pc \in {"loop", "done"}) => rq.shouldRetryCalls = 1

-----------------------------------------------------------------------------
(* SpecFilter: FilterOpenAIErr applied to one error *)

ChannelTypeGeminiCli == "geminicli"

\* a message is the sequence of its pieces of text; the two generic messages are
\* written here in English
SaturatedGroupMessage == <<"upstream of this group is saturated, try again later">>
SaturatedMessage == <<"upstream is saturated, try again later">>
BadResponsePhrase == "bad response status code"

\* the pieces the pattern \(request id: [^\)]+\) matches
RequestIdPieces == {"(request id: upstream)", "(request id: req)"}

\* quotaKeywords: the pieces of upstream text that contain one of them
QuotaPieces == {"insufficient quota", "no available channel"}

\* strings.Contains(message, "(request id:")
ContainsRequestId(message) == \E k \in DOMAIN message : message[k] \in RequestIdPieces

\* requestIdRegex.ReplaceAllString(message, "")
RECURSIVE RemoveRequestIds(_)
RemoveRequestIds(message) ==
    IF message = <<>> THEN <<>>
    ELSE (IF Head(message) \in RequestIdPieces THEN <<>> ELSE <<Head(message)>>)
         \o RemoveRequestIds(Tail(message))

\* utils.MessageWithRequestId
MessageWithRequestId(message, requestId) == Append(message, "(request id: req)")

\* utils.ContainsString(message, quotaKeywords)
ContainsQuotaKeyword(message) == \E k \in DOMAIN message : message[k] \in QuotaPieces

\* strings.HasSuffix(type, "_api_error")
HasSuffixApiError(type) == type \in {"new_api_error", "one_api_error"}

\* the zero value of types.OpenAIErrorWithStatusCode, which a nil error is copied to
ZeroError == [StatusCode |-> 0, LocalError |-> FALSE, Type |-> "", Message |-> <<>>,
              Code |-> "", Param |-> ""]

\* the GeminiCli and ClaudeCode blocks of FilterOpenAIErr: [returned, err]
FilterAuthError(c, newErr, channelType, errorType, tokenErrorType) ==
    IF c.channel_type = channelType /\ ~newErr.LocalError
       /\ newErr.Type \in {errorType, tokenErrorType}
    THEN IF newErr.StatusCode \in {StatusUnauthorized, StatusForbidden}
         THEN IF c.first_non_auth_error.exists
              THEN LET firstErr == c.first_non_auth_error.err
                   IN  [returned |-> TRUE,
                        err |-> [firstErr EXCEPT
                                   !.Type = IF @ = errorType THEN "system_error" ELSE @,
                                   !.Message = MessageWithRequestId(@, c.requestId)]]
              ELSE [returned |-> TRUE,
                    err |-> [newErr EXCEPT
                               !.Type = IF newErr.StatusCode = StatusUnauthorized
                                        THEN "authentication_error" ELSE "access_denied",
                               !.Message = MessageWithRequestId(SaturatedMessage, c.requestId),
                               !.StatusCode = StatusTooManyRequests]]
         ELSE [returned |-> FALSE, err |-> [newErr EXCEPT !.Type = "system_error"]]
    ELSE [returned |-> FALSE, err |-> newErr]

\* FilterOpenAIErr
FilterOpenAIErr(c, err) ==
    LET e1 == IF err.StatusCode = StatusTooManyRequests
              THEN [err EXCEPT !.Message = SaturatedGroupMessage] ELSE err
        e2 == IF ContainsRequestId(e1.Message)
              THEN [e1 EXCEPT !.Message = RemoveRequestIds(@)] ELSE e1
        e3 == [e2 EXCEPT !.Message = MessageWithRequestId(@, c.requestId)]
        gemini == FilterAuthError(c, e3, ChannelTypeGeminiCli, "geminicli_error",
                                  "geminicli_token_error")
        claude == FilterAuthError(c, gemini.err, ChannelTypeClaudeCode, "claudecode_error",
                                  "claudecode_token_error")
        e4 == claude.err
        e5 == IF ~e4.LocalError /\ (e4.Type = "one_hub_error" \/ HasSuffixApiError(e4.Type))
              THEN IF ContainsQuotaKeyword(e4.Message)
                   THEN [e4 EXCEPT !.Type = "system_error", !.Message = SaturatedMessage,
                                   !.StatusCode = StatusTooManyRequests]
                   ELSE [e4 EXCEPT !.Type = "system_error"]
              ELSE e4
        e6 == IF e5.Code = "bad_response_status_code"
                 /\ ~\E k \in DOMAIN e5.Message : e5.Message[k] = BadResponsePhrase
              THEN [e5 EXCEPT !.Message = <<"Provider API error:", BadResponsePhrase, e5.Param>>]
              ELSE e5
    IN  IF gemini.returned THEN gemini.err
        ELSE IF claude.returned THEN claude.err
        ELSE e6

\* the messages an upstream error can carry
FilterMessages ==
    {<<"upstream text">>, <<"insufficient quota">>, <<"upstream text", "(request id: upstream)">>,
     <<"upstream", BadResponsePhrase>>}

FilterTypes ==
    {"geminicli_error", "geminicli_token_error", "claudecode_error", "claudecode_token_error",
     "one_hub_error", "new_api_error", "invalid_request_error"}

FilterStatusCodes ==
    {StatusTooManyRequests, StatusUnauthorized, StatusForbidden, StatusInternalServerError}

FilterErrors ==
    {ZeroError} \cup
    {[StatusCode |-> status, LocalError |-> localError, Type |-> type, Message |-> message,
      Code |-> code, Param |-> IF code = "" THEN "" ELSE "502"] :
        status \in FilterStatusCodes, localError \in BOOLEAN, type \in FilterTypes,
        message \in FilterMessages, code \in {"", "bad_response_status_code"}}

\* the errors Relay caches as first_non_auth_error: status neither 401 nor 403
CachedErrors ==
    {e \in FilterErrors : /\ e.StatusCode \in {StatusTooManyRequests, StatusInternalServerError}
                          /\ e.Message \in {<<"upstream text">>, <<"insufficient quota">>}
                          /\ e.Code = "" /\ ~e.LocalError
                          /\ e.Type \in {"claudecode_error", "new_api_error"}}

InitFilter ==
    /\ now = 0
    /\ Cooldowns = EmptyMap
    /\ track = EmptyMap
    /\ config = NoValue
    /\ \E err \in FilterErrors,
          channelType \in {ChannelTypeGeminiCli, ChannelTypeClaudeCode, ChannelTypeOpenAI},
          cached \in {[exists |-> FALSE, err |-> ZeroError]}
                     \cup {[exists |-> TRUE, err |-> e] : e \in CachedErrors} :
            call = [op |-> "input", err |-> err,
                    c |-> [requestId |-> "req", channel_type |-> channelType,
                           first_non_auth_error |-> cached],
                    out |-> ZeroError]
    /\ RegistryUnused /\ CooldownProcsUnused /\ LoadProcsUnused /\ RelayUnused

\* FilterOpenAIErr(c, err) returns
FilterCall ==
    /\ call.op = "input"
    /\ call' = [call EXCEPT !.op = "FilterOpenAIErr", !.out = FilterOpenAIErr(call.c, call.err)]
    /\ UNCHANGED <<now, Cooldowns, track, config, registryVars, sticky, setter, sweep, lock,
                   loader, reader, rq>>

NextFilter == FilterCall

SpecFilter == InitFilter /\ [][NextFilter]_vars

\* C31: every error FilterOpenAIErr returns with status code 429 carries the generic
\* upstream-saturated message, with or without a request id, and never a raw upstream
\* message, also when the final 401 or 403 of a GeminiCli or ClaudeCode channel is
\* replaced by the cached first non-auth error.
C31_RateLimitedMessageGeneric ==
    (call.op = "FilterOpenAIErr" /\ call.out.StatusCode = StatusTooManyRequests) =>
        RemoveRequestIds(call.out.Message) \in {SaturatedGroupMessage, SaturatedMessage}

-----------------------------------------------------------------------------
(* The cached first non-auth error *)

\* while no attempt has failed nothing is cached, and while nothing is cached the last
\* failed attempt ended with 401 or 403 (after retry_timeout apiErr is the synthetic
\* error, not that of an attempt)
UnsetOnlyAfterAuthErrors ==
    /\ (rq.pc \in {"setProvider", "handler"} \/ rq.result = "provider_error")
          => ~rq.c.first_non_auth_error.exists
    /\ (~rq.c.first_non_auth_error.exists /\ rq.last.failed /\ Logged("retry_timeout") = {})
          => rq.apiErr.StatusCode \in AuthStatusCodes

\* a cached error is kept by every step; with nothing cached, a failed attempt caches
\* its error unless the status is 401 or 403, and no other step caches anything
CachedOnceAtFirstNonAuth ==
    LET cached == rq.c.first_non_auth_error
        failedAttempt == rq'.attempted # rq.attempted /\ rq'.last.failed
    IN  /\ cached.exists => rq'.c.first_non_auth_error = cached
        /\ (~cached.exists /\ failedAttempt) =>
              rq'.c.first_non_auth_error =
                  IF rq'.apiErr.StatusCode \in AuthStatusCodes THEN cached
                  ELSE [exists |-> TRUE, err |-> rq'.apiErr]
        /\ ~failedAttempt => rq'.c.first_non_auth_error = cached

\* C32: within one request of Relay the cached first_non_auth_error, once set, is never
\* overwritten; it is the error of the earliest failed attempt whose status code was
\* neither 401 nor 403, and it is unset exactly when every failed attempt so far
\* returned 401 or 403.
C32_FirstNonAuthErrorCached ==
    /\ []UnsetOnlyAfterAuthErrors
    /\ [][CachedOnceAtFirstNonAuth]_vars

\* the first attempt failed with 500, which was cached, and the retry failed with 429,
\* which left the cached error alone
C32_Witness ==
    /\ Len(rq.attempted) = 2
    /\ rq.last.failed
    /\ rq.c.first_non_auth_error.exists
    /\ rq.c.first_non_auth_error.err.StatusCode = StatusInternalServerError
    /\ rq.apiErr.StatusCode = StatusTooManyRequests

-----------------------------------------------------------------------------
(* SpecStream: responseStreamClient and responseGeneralStreamClient with their stream
   and their client *)

\* the chunks the upstream can send before its stream ends
MaxChunks == 2

streamFrame == <<now, Cooldowns, track, config, registryVars, sticky, setter, sweep, lock,
                 loader, reader, rq>>

\* A variant of the test before a write that never finds the client gone.
ClientGoneNever(ctxDone) == FALSE

\* select { case <-c.Request.Context().Done(): default: ... } before every write
ClientGone(ctxDone) == ctxDone

\* what follows an item of output, written or skipped
AfterItem(fn, item) ==
    CASE item = "data" -> [pc |-> "select", item |-> ""]
      [] item = "error" -> [pc |-> "return", item |-> ""]
      [] item = "end" -> IF fn = "responseStreamClient"
                         THEN [pc |-> "check", item |-> "[DONE]"]
                         ELSE [pc |-> "return", item |-> ""]
      [] OTHER -> [pc |-> "return", item |-> ""]

\* what follows io.EOF on errChan: the data of endHandler, the end marker, or the return
AfterEOF(fn, endHandler, finalErr) ==
    IF endHandler = "data" /\ (fn = "responseGeneralStreamClient" \/ ~finalErr)
    THEN [pc |-> "check", item |-> "end"]
    ELSE IF fn = "responseStreamClient" THEN [pc |-> "check", item |-> "[DONE]"]
    ELSE [pc |-> "return", item |-> ""]

InitStream ==
    /\ now = 0
    /\ Cooldowns = EmptyMap
    /\ track = EmptyMap
    /\ config = NoValue
    /\ \E fn \in {"responseStreamClient", "responseGeneralStreamClient"},
          endHandler \in {"nil", "empty", "data"}, chunks \in 0..MaxChunks :
            call = [op |-> "stream", fn |-> fn, endHandler |-> endHandler,
                    toSend |-> chunks, dataChan |-> 0, errChan |-> "", dataClosed |-> FALSE,
                    ended |-> FALSE, ctxDone |-> FALSE,
                    pc |-> "select", item |-> "", received |-> 0, written |-> <<>>,
                    finalErr |-> FALSE, closed |-> FALSE]
    /\ RegistryUnused /\ CooldownProcsUnused /\ LoadProcsUnused /\ RelayUnused

\* the stream reader offers the next chunk on dataChan
StreamSend ==
    /\ call.op = "stream" /\ ~call.ended
    /\ call.toSend > 0 /\ call.dataChan = 0 /\ call.errChan = "" /\ ~call.dataClosed
    /\ call' = [call EXCEPT !.toSend = @ - 1, !.dataChan = 1]
    /\ UNCHANGED streamFrame

\* the stream ends: an error or io.EOF on errChan, or dataChan closed
StreamEnd ==
    /\ call.op = "stream" /\ ~call.ended
    /\ call.dataChan = 0 /\ call.errChan = "" /\ ~call.dataClosed
    /\ \E ending \in {"error", "EOF", "close"} :
          call' = [call EXCEPT !.errChan = IF ending = "close" THEN "" ELSE ending,
                               !.dataClosed = (ending = "close")]
    /\ UNCHANGED streamFrame

\* the client disconnects: the request context is done from now on
ClientDisconnect ==
    /\ call.op = "stream" /\ ~call.ctxDone /\ call.pc # "returned"
    /\ call' = [call EXCEPT !.ctxDone = TRUE]
    /\ UNCHANGED streamFrame

\* the select of the goroutine takes a chunk, the close of dataChan, or the end
HandlerSelect ==
    /\ call.op = "stream" /\ call.pc = "select"
    /\ \/ /\ call.dataChan = 1
          /\ call' = [call EXCEPT !.dataChan = 0, !.received = @ + 1,
                                  !.pc = "check", !.item = "data"]
       \/ /\ call.dataClosed
          /\ call' = [call EXCEPT !.pc = "return", !.ended = TRUE]
       \/ /\ call.errChan = "error"
          /\ call' = [call EXCEPT !.errChan = "", !.ended = TRUE,
                                  !.pc = "check", !.item = "error"]
       \/ /\ call.errChan = "EOF"
          /\ LET next == AfterEOF(call.fn, call.endHandler, call.finalErr)
             IN  call' = [call EXCEPT !.errChan = "", !.ended = TRUE,
                                      !.pc = next.pc, !.item = next.item]
    /\ UNCHANGED streamFrame

\* the test of the request context before a write
HandlerCheck ==
    /\ call.op = "stream" /\ call.pc = "check"
    /\ call' = IF ClientGone(call.ctxDone)
               THEN LET next == AfterItem(call.fn, call.item)
                    IN  [call EXCEPT !.pc = next.pc, !.item = next.item,
                                     !.finalErr = @ \/ (call.item = "error"
                                                         /\ call.fn = "responseStreamClient")]
               ELSE [call EXCEPT !.pc = "write"]
    /\ UNCHANGED streamFrame

\* c.Writer.Write and Flush; late records whether the context was done by then
HandlerWrite ==
    /\ call.op = "stream" /\ call.pc = "write"
    /\ LET next == AfterItem(call.fn, call.item)
       IN  call' = [call EXCEPT !.written = Append(@, [item |-> call.item,
                                                        late |-> call.ctxDone]),
                                !.pc = next.pc, !.item = next.item,
                                !.finalErr = @ \/ (call.item = "error"
                                                    /\ call.fn = "responseStreamClient")]
    /\ UNCHANGED streamFrame

\* close(done), the return of the function and the deferred stream.Close()
HandlerReturn ==
    /\ call.op = "stream" /\ call.pc = "return"
    /\ call' = [call EXCEPT !.pc = "returned", !.closed = TRUE]
    /\ UNCHANGED streamFrame

NextStream ==
    \/ StreamSend
    \/ StreamEnd
    \/ ClientDisconnect
    \/ HandlerSelect
    \/ HandlerCheck
    \/ HandlerWrite
    \/ HandlerReturn

SpecStream == InitStream /\ [][NextStream]_vars

\* the writes made when the request context was already done
LateWrites == {k \in DOMAIN call.written : call.written[k].late}

\* the handler returns, and closes the stream, only after the stream has ended
ReturnsAfterStreamEnd ==
    /\ call.pc \in {"return", "returned"} => call.ended
    /\ call.closed => call.pc = "returned"

\* C33: in responseStreamClient and responseGeneralStreamClient, once the request
\* context is done no further bytes are written to the client, while the handler keeps
\* consuming the stream until it ends and only then returns and closes it.
C33_NoWriteAfterDisconnect == LateWrites = {} /\ ReturnsAfterStreamEnd

\* a test that finds the context done skips its write, and a write is made only for the
\* item whose test has just passed
WriteOnlyAfterPassedCheck ==
    /\ (call.pc = "check" /\ call.ctxDone /\ call' # call /\ call'.ctxDone = call.ctxDone)
          => (call'.pc # "write" /\ call'.written = call.written)
    /\ call'.written # call.written =>
          /\ call.pc = "write"
          /\ call'.written = Append(call.written, [item |-> call.item, late |-> call.ctxDone])

\* C33 as the code has it: the context is tested before each write and a test that
\* finds it done skips the write; only the one write whose test passed before the
\* disconnect can still follow it; the handler returns and closes the stream only after
\* the stream has ended.
C33_WriteSkippedOnceSeenDone ==
    /\ [](Cardinality(LateWrites) <= 1 /\ ReturnsAfterStreamEnd)
    /\ [][WriteOnlyAfterPassedCheck]_vars

\* the client left after the first chunk was written; the second chunk was consumed
\* without a write and the handler returned at the end of the stream
C33_Witness ==
    /\ call.op = "stream" /\ call.pc = "returned"
    /\ call.ctxDone /\ call.received = 2
    /\ Len(call.written) = 1 /\ LateWrites = {}

-----------------------------------------------------------------------------
(* SpecSticky: two consecutive selections of one session *)

\* tables with every channel enabled, of any priorities, in which channel 1 is of a
\* session-affine type or not
StickyTables ==
    PriorityTables \cup
    {[id \in ChannelIds |-> [t[id] EXCEPT !.Type = ChannelTypeClaudeCode]] : t \in PriorityTables}

stickyFrame == <<now, Cooldowns, Rule, Match, ModelGroup, db, track, setter, sweep, lock,
                 loader, reader, config, rq>>

InitSticky ==
    /\ now = 0
    /\ Cooldowns = EmptyMap
    /\ track = EmptyMap
    /\ config = DefaultConfig
    /\ db \in StickyTables
    /\ Rule = LoadBuild(db, config.DefaultChannelWeight).Rule
    /\ Channels = LoadBuild(db, config.DefaultChannelWeight).Channels
    /\ Match = LoadBuild(db, config.DefaultChannelWeight).Match
    /\ ModelGroup = LoadBuild(db, config.DefaultChannelWeight).ModelGroup
    /\ sticky = EmptyMap
    /\ \E filters \in ChooserFilters, session \in Sessions :
          call = [op |-> "input", group |-> GroupG, modelName |-> ModelM, filters |-> filters,
                  session |-> session, first |-> 0, second |-> 0, disabled |-> FALSE]
    /\ CooldownProcsUnused /\ LoadProcsUnused /\ RelayUnused

\* NextByValidatedModel for the first request of the session
StickyFirst ==
    /\ call.op = "input"
    /\ \E r \in NextByValidatedModel(call.group, call.modelName, call.session.ginContext,
                                     call.filters, ChooserState, call.session.o) :
          /\ sticky' = r.sticky
          /\ call' = [call EXCEPT !.op = "first", !.first = r.channel]
    /\ UNCHANGED <<Channels, stickyFrame>>

\* Disable of the channel the first request got, before the second request
StickyDisable ==
    /\ call.op = "first" /\ call.first # 0 /\ ~call.disabled
    /\ Channels' = Disable(Channels, call.first)
    /\ call' = [call EXCEPT !.disabled = TRUE]
    /\ UNCHANGED <<sticky, stickyFrame>>

\* NextByValidatedModel for the second request of the session, with the same arguments
StickySecond ==
    /\ call.op = "first"
    /\ \E r \in NextByValidatedModel(call.group, call.modelName, call.session.ginContext,
                                     call.filters, ChooserState, call.session.o) :
          /\ sticky' = r.sticky
          /\ call' = [call EXCEPT !.op = "second", !.second = r.channel]
    /\ UNCHANGED <<Channels, stickyFrame>>

NextSticky ==
    \/ StickyFirst
    \/ StickyDisable
    \/ StickySecond

SpecSticky == InitSticky /\ [][NextSticky]_vars

\* every channel listed for the group and the model is of a session-affine type, the
\* request has a fingerprint and the store calls succeed
SessionAffine ==
    /\ ~call.session.ginContext.isNil
    /\ call.session.o.getOk /\ call.session.o.setOk
    /\ \A id \in ChannelIds : db[id].Type = ChannelTypeClaudeCode

\* C34: for a session-affine channel type, two consecutive NextByValidatedModel
\* selections with the same group, model, filters and fingerprint return the same
\* channel while that channel stays enabled, not cooling down and unfiltered, for a
\* channel in any priority tier; if the channel is disabled between the two
\* selections, the second returns another channel and the stale mapping is deleted.
C34_SameChannelForSession ==
    (call.op = "second" /\ call.first # 0 /\ SessionAffine) =>
        IF call.disabled
        THEN /\ call.second # call.first
             /\ GetStickySessionMapping(sticky, SessionHash, ChannelTypeClaudeCode,
                                        call.session.o) # call.first
        ELSE call.second = call.first

-----------------------------------------------------------------------------
(* SpecTask: one request through RelayTaskSubmit *)

\* buildTaskChannelFilters
buildTaskChannelFilters(c) ==
    (IF c.skip_channel_ids.exists
     THEN <<[kind |-> "FilterChannelId", ids |-> c.skip_channel_ids.ids]>> ELSE <<>>)
    \o (IF c.allow_channel_type.exists
        THEN <<[kind |-> "FilterChannelTypes", types |-> c.allow_channel_type.types]>> ELSE <<>>)

\* groupName of RelayTaskSubmit
TaskGroupName(c) == IF c.token_group = <<>> THEN c.group ELSE c.token_group

\* taskAdaptor.SetProvider: a channel of the group that serves the model, 0 for none
TaskSetProviderResults(c, modelName, st) ==
    {IF r.err # "" \/ r.panic THEN 0 ELSE r.channel :
        r \in Next(TaskGroupName(c), modelName, buildTaskChannelFilters(c), st)}

NewTaskRequest(c) ==
    [pc |-> "taskSetProvider", c |-> c, modelName |-> ModelM, channel |-> 0, taskErr |-> "",
     i |-> 0, attempted |-> <<>>, quota |-> <<>>, result |-> ""]

InitTask ==
    /\ now = 0
    /\ Cooldowns = EmptyMap
    /\ call = NoCall
    /\ track = EmptyMap
    /\ \E retryTimes \in 0..MaxRetryTimes, seconds \in {0, 1} :
          config = [DefaultConfig EXCEPT !.RetryTimes = retryTimes,
                                         !.RetryCooldownSeconds = seconds]
    /\ db \in RelayTables
    /\ Rule = LoadBuild(db, config.DefaultChannelWeight).Rule
    /\ Channels = LoadBuild(db, config.DefaultChannelWeight).Channels
    /\ Match = LoadBuild(db, config.DefaultChannelWeight).Match
    /\ ModelGroup = LoadBuild(db, config.DefaultChannelWeight).ModelGroup
    /\ sticky = EmptyMap
    /\ \E groups \in RequestGroups :
          rq = NewTaskRequest(NewContext(groups.token_group, groups.token_backup_group, 0,
                                         FALSE, NilContext, 0))
    /\ CooldownProcsUnused /\ LoadProcsUnused

taskFrame == <<Channels, Rule, Match, ModelGroup, db, call, track, setter, sweep, lock,
               loader, reader, config, sticky>>

\* time passes while the task is with the provider
TaskTick ==
    /\ rq.pc \in {"taskRelay", "taskRetry"}
    /\ now < MaxRelayTime
    /\ now' = now + 1
    /\ UNCHANGED <<Cooldowns, rq, taskFrame>>

\* taskAdaptor.Init, taskAdaptor.SetProvider and PreQuotaConsumption before the first
\* attempt
TaskSetProvider ==
    /\ rq.pc = "taskSetProvider"
    /\ \E channel \in TaskSetProviderResults(rq.c, rq.modelName, ChooserState),
          preQuotaOk \in BOOLEAN :
          rq' = IF channel = 0 \/ ~preQuotaOk
                THEN [rq EXCEPT !.pc = "taskDone", !.result = "error"]
                ELSE [rq EXCEPT !.pc = "taskRelay", !.channel = channel]
    /\ UNCHANGED <<now, Cooldowns, taskFrame>>

\* the first taskAdaptor.Relay: CompletedTask on success, else Undo and the retry budget
TaskFirstRelay ==
    /\ rq.pc = "taskRelay"
    /\ \E failed \in BOOLEAN, retryable \in BOOLEAN :
        LET totalChannelsAtStart ==
                CountAvailableChannels(TaskGroupName(rq.c), rq.modelName, <<>>, ChooserState)
            retryTimes == IF retryable THEN config.RetryTimes ELSE 0
            actualRetryTimes == ActualRetryTimes(retryTimes, totalChannelsAtStart)
            attempted == [rq EXCEPT !.attempted = Append(@, rq.channel)]
        IN  rq' = IF ~failed
                  THEN [attempted EXCEPT !.pc = "taskDone", !.result = "success",
                                         !.quota = Append(@, "Consume")]
                  ELSE [attempted EXCEPT
                          !.pc = IF actualRetryTimes > 0 THEN "taskLoop" ELSE "taskDone",
                          !.result = IF actualRetryTimes > 0 THEN @ ELSE "error",
                          !.taskErr = "relay_error", !.i = actualRetryTimes,
                          !.quota = Append(@, "Undo"),
                          !.c = [rq.c EXCEPT !.total_channels_at_start = totalChannelsAtStart,
                                             !.actual_retry_times = actualRetryTimes,
                                             !.attempt_count = 1]]
    /\ UNCHANGED <<now, Cooldowns, taskFrame>>

\* the head of a loop iteration: SetCooldowns on the last channel, then SetProvider;
\* when that fails the loop continues with one retry less
TaskReselect ==
    /\ rq.pc = "taskLoop"
    /\ LET r == SetCooldowns(Cooldowns, rq.channel, rq.modelName, now, config)
           st == [ChooserState EXCEPT !.Cooldowns = r.map]
       IN  /\ Cooldowns' = r.map
           /\ \E channel \in TaskSetProviderResults(rq.c, rq.modelName, st) :
                rq' = IF channel = 0
                      THEN [rq EXCEPT !.taskErr = "provider_error", !.i = @ - 1,
                                      !.pc = IF rq.i - 1 > 0 THEN "taskLoop" ELSE "taskDone",
                                      !.result = IF rq.i - 1 > 0 THEN @ ELSE "error"]
                      ELSE [rq EXCEPT !.pc = "taskRetry", !.channel = channel, !.taskErr = "",
                                      !.c = [rq.c EXCEPT !.attempt_count = @ + 1]]
    /\ UNCHANGED <<now, taskFrame>>

\* taskAdaptor.Relay inside the loop: CompletedTask on success, else Undo and the test of
\* ShouldRetry
TaskRetryRelay ==
    /\ rq.pc = "taskRetry"
    /\ \E failed \in BOOLEAN, retryable \in BOOLEAN :
        LET attempted == [rq EXCEPT !.attempted = Append(@, rq.channel)]
            last == ~retryable \/ rq.i - 1 <= 0
        IN  rq' = IF ~failed
                  THEN [attempted EXCEPT !.pc = "taskDone", !.result = "success",
                                         !.quota = Append(@, "Consume")]
                  ELSE [attempted EXCEPT !.pc = IF last THEN "taskDone" ELSE "taskLoop",
                                         !.result = IF last THEN "error" ELSE @,
                                         !.taskErr = "relay_error",
                                         !.i = IF retryable THEN @ - 1 ELSE @,
                                         !.quota = Append(@, "Undo")]
    /\ UNCHANGED <<now, Cooldowns, taskFrame>>

NextTask ==
    \/ TaskTick
    \/ TaskSetProvider
    \/ TaskFirstRelay
    \/ TaskReselect
    \/ TaskRetryRelay

SpecTask == InitTask /\ [][NextTask]_vars

\* C35: in RelayTaskSubmit a retry never re-attempts a channel that already failed in
\* the same request: each reselection excludes every channel already tried, whatever
\* config.RetryCooldownSeconds is, 0 included.
C35_TaskNoChannelTwice ==
    rq.pc \in {"taskRetry", "taskLoop", "taskDone"} =>
        /\ \A j, k \in DOMAIN rq.attempted : j # k => rq.attempted[j] # rq.attempted[k]
        /\ rq.pc = "taskRetry" => \A k \in DOMAIN rq.attempted : rq.attempted[k] # rq.channel

\* C36: in RelayTaskSubmit the pre-consumed quota of a request is never both refunded
\* and charged: Undo is invoked at most once per request and Consume is never invoked
\* after an Undo.
C36_TaskUndoXorConsume ==
    rq.pc \in {"taskRetry", "taskLoop", "taskDone"} =>
        /\ Cardinality({k \in DOMAIN rq.quota : rq.quota[k] = "Undo"}) <= 1
        /\ \A j, k \in DOMAIN rq.quota :
              (j < k /\ rq.quota[j] = "Undo") => rq.quota[k] # "Consume"

-----------------------------------------------------------------------------
(* SpecLoadDisable: Disable and Enable while Load rebuilds the registry *)

\* Disable(channelId) under cc.Lock(); the call is remembered with the generation of the
\* last Load that had read the table by then
LoadDisable ==
    /\ call.op # "Disable"
    /\ lock.readers = {} /\ ~lock.writer
    /\ \E channelId \in 1..NumLoadChannels :
          /\ Channels' = Disable(Channels, channelId)
          /\ call' = [NoCall EXCEPT !.op = "Disable", !.channelId = channelId,
                                    !.d = loader.gen, !.ok = channelId \in DOMAIN Channels]
    /\ UNCHANGED <<Rule, Match, ModelGroup, db, lock, loader, reader, now, Cooldowns, sticky,
                   track, setter, sweep, config, rq>>

\* Enable(channelId) under cc.Lock(), for the channel disabled before
LoadEnable ==
    /\ call.op = "Disable"
    /\ lock.readers = {} /\ ~lock.writer
    /\ Channels' = Enable(Channels, call.channelId)
    /\ call' = [NoCall EXCEPT !.op = "Enable", !.channelId = call.channelId]
    /\ UNCHANGED <<Rule, Match, ModelGroup, db, lock, loader, reader, now, Cooldowns, sticky,
                   track, setter, sweep, config, rq>>

NextLoadDisable ==
    \/ TableChange
    \/ LoadRead
    \/ LoadLock
    \/ LoadAssign
    \/ LoadUnlock
    \/ LoadDisable
    \/ LoadEnable

SpecLoadDisable == InitLoad /\ [][NextLoadDisable]_vars

\* Next can return the channel for some group and model
Selectable(channelId) ==
    \E group \in {GroupG, GroupH} :
        \E r \in Next(group, ModelM, <<>>, ChooserState) : r.channel = channelId

\* C37: a Disable(id) that completes while a Load is between its read of the enabled
\* channels and its swap is not lost: after that Load completes Next never returns id,
\* until Enable(id) or a later Load that read the table after the Disable.
C37_DisableSurvivesLoad ==
    (/\ call.op = "Disable" /\ call.ok
     /\ ~lock.writer
     /\ loader.ver["Channels"] <= call.d)
        => ~Selectable(call.channelId)

-----------------------------------------------------------------------------
(* What SetCooldownsWithDuration promises when it returns, with the sweep running *)

\* setter p returns true in this step
SetterReturnsTrue(p) ==
    setter[p].pc # "idle" /\ setter'[p].pc = "idle" /\ setter'[p].returned

\* setter p is refused at the argument check in this step
SetterRefused(p) ==
    setter[p].pc = "idle" /\ setter'[p].pc = "idle" /\ setter'[p] # setter[p]

\* the entry of setter p's key is there as the step ends, and expires after the time the
\* call read at line 103 (the clock may have moved on since; the call cannot know)
EntryLiveAtReturn(p) ==
    /\ setter[p].key \in DOMAIN Cooldowns'
    /\ setter[p].nowTime < Cooldowns'[setter[p].key]

\* C38: under every interleaving of SetCooldownsWithDuration calls and the sweep on one key,
\* a call that returns true leaves an entry for its key with an expiry in the future (later
\* than the time the call worked with) at the moment it returns; a call with channel 0, an empty model or duration 0 returns false and
\* stores nothing.
C38_TrueMeansCooling ==
    [][\A p \in Setters :
          /\ SetterReturnsTrue(p) => EntryLiveAtReturn(p)
          /\ SetterRefused(p) => (~setter'[p].returned /\ Cooldowns' = Cooldowns)]_vars

-----------------------------------------------------------------------------
(* SpecRecraft: one request through RelayRecraftAI *)

\* the request at the entry of RelayRecraftAI; apiErr is the variable declared at the first
\* CreateRelay, latest the error the most recent CreateRelay returned
NewRecraftRequest(c) ==
    [pc |-> "recraftProvider", c |-> c, model |-> ModelM, channel |-> 0, apiErr |-> NoError,
     latest |-> NoError, i |-> 0, attempted |-> <<>>, decisions |-> <<>>, quota |-> <<>>,
     response |-> NoError, result |-> ""]

InitRecraft ==
    /\ now = 0
    /\ Cooldowns = EmptyMap
    /\ call = NoCall
    /\ track = EmptyMap
    /\ \E retryTimes \in 0..MaxRetryTimes : config = [DefaultConfig EXCEPT !.RetryTimes = retryTimes]
    /\ db \in RelayTables
    /\ Rule = LoadBuild(db, config.DefaultChannelWeight).Rule
    /\ Channels = LoadBuild(db, config.DefaultChannelWeight).Channels
    /\ Match = LoadBuild(db, config.DefaultChannelWeight).Match
    /\ ModelGroup = LoadBuild(db, config.DefaultChannelWeight).ModelGroup
    /\ sticky = EmptyMap
    /\ \E groups \in RequestGroups :
          rq = NewRecraftRequest(NewContext(groups.token_group, groups.token_backup_group, 0,
                                            FALSE, NilContext, 0))
    /\ CooldownProcsUnused /\ LoadProcsUnused

\* time passes while the request is with the provider
RecraftTick ==
    /\ rq.pc \in {"recraftRelay", "recraftRetry"}
    /\ now < MaxRelayTime
    /\ now' = now + 1
    /\ UNCHANGED <<Cooldowns, Channels, sticky, rq, relayFrame>>

\* getRecraftProvider and PreQuotaConsumption before the first attempt
RecraftGetProvider ==
    /\ rq.pc = "recraftProvider"
    /\ \E o \in RedisOutcomes(rq.c.ginContext), preQuotaOk \in BOOLEAN :
        \E p \in GetProvider(rq.c, rq.model, db, ChooserState, o) :
            /\ sticky' = p.sticky
            /\ rq' = IF p.fail # "" \/ p.channel = 0 \/ ~preQuotaOk
                     THEN [rq EXCEPT !.pc = "recraftDone", !.c = p.c, !.result = "unavailable"]
                     ELSE [rq EXCEPT !.pc = "recraftRelay", !.c = p.c, !.channel = p.channel]
    /\ UNCHANGED <<now, Cooldowns, Channels, relayFrame>>

\* the first CreateRelay, the retry budget and, with no budget, the final response
RecraftFirstAttempt ==
    /\ rq.pc = "recraftRelay"
    /\ \E err \in SendErrors \cup {NoError},
          disabled \in IF Cardinality(AutoDisabled(Channels)) < MaxAutoDisabled
                       THEN BOOLEAN ELSE {FALSE} :
        LET groupName == IF rq.c.token_group = <<>> THEN rq.c.group ELSE rq.c.token_group
            totalChannelsAtStart ==
                CountAvailableChannels(groupName, rq.c.new_model, <<>>, ChooserState)
            retryTimes == IF shouldRetry(rq.c, err, ChannelOf(db, rq.channel).Type)
                          THEN config.RetryTimes ELSE 0
            actualRetryTimes == ActualRetryTimes(retryTimes, totalChannelsAtStart)
            attempted == [rq EXCEPT !.attempted = Append(@, rq.channel)]
        IN  IF err = NoError
            THEN /\ ~disabled
                 /\ rq' = [attempted EXCEPT !.pc = "recraftDone", !.result = "success",
                                            !.quota = Append(@, "Consume")]
                 /\ Channels' = Channels
            ELSE /\ rq' = [attempted EXCEPT
                             !.pc = IF actualRetryTimes > 0 THEN "recraftLoop" ELSE "recraftDone",
                             !.result = IF actualRetryTimes > 0 THEN @ ELSE "error",
                             !.quota = IF actualRetryTimes > 0 THEN @ ELSE Append(@, "Undo"),
                             !.response = IF actualRetryTimes > 0 THEN @ ELSE err,
                             !.apiErr = err, !.latest = err, !.i = actualRetryTimes,
                             !.c = [rq.c EXCEPT !.total_channels_at_start = totalChannelsAtStart,
                                                !.actual_retry_times = actualRetryTimes,
                                                !.attempt_count = 1]]
                 /\ Channels' = ProcessChannelRelayError(Channels, rq.channel, disabled)
    /\ UNCHANGED <<now, Cooldowns, sticky, relayFrame>>

\* the head of a loop iteration: shouldCooldowns(c, channel, apiErr), then
\* getRecraftProvider; when that fails the loop continues with one retry less
RecraftReselect ==
    /\ rq.pc = "recraftLoop"
    /\ LET sc == shouldCooldowns(rq.c, rq.channel, rq.apiErr, Cooldowns, now, config)
           st == [ChooserState EXCEPT !.Cooldowns = sc.Cooldowns]
           decided == [rq EXCEPT !.decisions = Append(@, [apiErr |-> rq.apiErr,
                                                          latest |-> rq.latest])]
       IN  /\ Cooldowns' = sc.Cooldowns
           /\ \E o \in RedisOutcomes(rq.c.ginContext) :
                \E p \in GetProvider(sc.c, rq.model, db, st, o) :
                    /\ sticky' = p.sticky
                    /\ rq' = IF p.fail # "" \/ p.channel = 0
                             THEN [decided EXCEPT
                                     !.c = p.c, !.i = @ - 1,
                                     !.pc = IF rq.i - 1 > 0 THEN "recraftLoop" ELSE "recraftDone",
                                     !.result = IF rq.i - 1 > 0 THEN @ ELSE "error",
                                     !.quota = IF rq.i - 1 > 0 THEN @ ELSE Append(@, "Undo"),
                                     !.response = IF rq.i - 1 > 0 THEN @ ELSE rq.apiErr]
                             ELSE [decided EXCEPT
                                     !.pc = "recraftRetry", !.channel = p.channel,
                                     !.c = [p.c EXCEPT !.attempt_count = @ + 1]]
    /\ UNCHANGED <<now, Channels, relayFrame>>

\* CreateRelay inside the loop; its error is a variable of the loop body (response,
\* apiErr := ...), the apiErr of the function is the one the final response is built from
RecraftRetryAttempt ==
    /\ rq.pc = "recraftRetry"
    /\ \E err \in SendErrors \cup {NoError},
          disabled \in IF Cardinality(AutoDisabled(Channels)) < MaxAutoDisabled
                       THEN BOOLEAN ELSE {FALSE} :
        LET attempted == [rq EXCEPT !.attempted = Append(@, rq.channel)]
            last == ~shouldRetry(rq.c, err, ChannelOf(db, rq.channel).Type) \/ rq.i - 1 <= 0
        IN  IF err = NoError
            THEN /\ ~disabled
                 /\ rq' = [attempted EXCEPT !.pc = "recraftDone", !.result = "success",
                                            !.quota = Append(@, "Consume")]
                 /\ Channels' = Channels
            ELSE /\ rq' = [attempted EXCEPT
                             !.pc = IF last THEN "recraftDone" ELSE "recraftLoop",
                             !.result = IF last THEN "error" ELSE @,
                             !.quota = IF last THEN Append(@, "Undo") ELSE @,
                             !.response = IF last THEN rq.apiErr ELSE @,
                             !.latest = err,
                             !.i = IF shouldRetry(rq.c, err, ChannelOf(db, rq.channel).Type)
                                   THEN @ - 1 ELSE @]
                 /\ Channels' = ProcessChannelRelayError(Channels, rq.channel, disabled)
    /\ UNCHANGED <<now, Cooldowns, sticky, relayFrame>>

NextRecraft ==
    \/ RecraftTick
    \/ RecraftGetProvider
    \/ RecraftFirstAttempt
    \/ RecraftReselect
    \/ RecraftRetryAttempt

SpecRecraft == InitRecraft /\ [][NextRecraft]_vars

\* C39: in RelayRecraftAI, after each failed retry attempt the error used for the next
\* iteration's cooldown decision and for the final response is the error of the most
\* recent attempt on the most recent channel, never the stale error of the first attempt.
C39_RecraftUsesLatestError ==
    /\ \A k \in DOMAIN rq.decisions : rq.decisions[k].apiErr = rq.decisions[k].latest
    /\ (rq.pc = "recraftDone" /\ rq.result = "error") => rq.response = rq.latest

-----------------------------------------------------------------------------
(* SpecLimiter: InMemoryRateLimiter, Request calls and the cleanup goroutine *)

shardCount == 32
MaxLimiterTime == 2
MaxAccepted == 3

\* the low bits of the FNV-1a offset basis 2166136261 (40389 is its low 16 bits) and of the
\* prime 16777619: getShard keeps only h.Sum32() & (shardCount-1), and the low bits of an
\* xor and of a product depend on the low bits of the operands alone
FnvOffsetLow == 40389 % shardCount
FnvPrimeLow == 16777619 % shardCount

RECURSIVE Xor(_, _)
Xor(a, b) ==
    IF a = 0 THEN b
    ELSE IF b = 0 THEN a
    ELSE (((a % 2) + (b % 2)) % 2) + 2 * Xor(a \div 2, b \div 2)

RECURSIVE Fnv32aLow(_, _)
Fnv32aLow(h, bytes) ==
    IF bytes = <<>> THEN h
    ELSE Fnv32aLow((Xor(h, Head(bytes) % shardCount) * FnvPrimeLow) % shardCount, Tail(bytes))

\* getShard: the index of the key's shard
getShard(key) == Fnv32aLow(FnvOffsetLow, key)

\* the keys "a" and "b", in shards 12 and 5
LimiterKeys == {<<97>>, <<98>>}

\* Request under the shard's mutex: the store after, and the result
Request(store, key, maxRequestNum, duration, nowTime) ==
    IF key \notin DOMAIN store
    THEN [store |-> [k \in DOMAIN store \cup {key} |->
                        IF k = key THEN <<nowTime>> ELSE store[k]],
          ok |-> TRUE]
    ELSE IF Len(store[key]) < maxRequestNum
    THEN [store |-> [store EXCEPT ![key] = Append(@, nowTime)], ok |-> TRUE]
    ELSE IF nowTime - store[key][1] >= duration
    THEN [store |-> [store EXCEPT ![key] = Append(Tail(@), nowTime)], ok |-> TRUE]
    ELSE [store |-> store, ok |-> FALSE]

\* the number of leading elements doCleanup cuts from a queue
RECURSIVE Cutoff(_, _, _)
Cutoff(queue, nowTime, expirationSeconds) ==
    IF queue # <<>> /\ nowTime - Head(queue) > expirationSeconds
    THEN 1 + Cutoff(Tail(queue), nowTime, expirationSeconds)
    ELSE 0

\* doCleanup on one shard under its mutex
CleanupShard(store, shard, nowTime, expirationSeconds) ==
    LET cut(key) == SubSeq(store[key], Cutoff(store[key], nowTime, expirationSeconds) + 1,
                           Len(store[key]))
        kept == {key \in DOMAIN store : getShard(key) # shard \/ cut(key) # <<>>}
    IN  [key \in kept |-> IF getShard(key) = shard THEN cut(key) ELSE store[key]]

IdleCleanup == [pc |-> "idle", nowTime |-> 0, i |-> 0]

InitLimiter ==
    /\ now = 0
    /\ \E maxRequestNum \in 1..2, duration \in 1..2, expirationSeconds \in 0..2 :
          call = [op |-> "limiter", store |-> EmptyMap,
                  accepted |-> [key \in LimiterKeys |-> <<>>],
                  maxRequestNum |-> maxRequestNum, duration |-> duration,
                  expirationSeconds |-> expirationSeconds, cleanup |-> IdleCleanup,
                  key |-> <<>>, ok |-> FALSE]
    /\ Cooldowns = EmptyMap
    /\ track = EmptyMap
    /\ config = NoValue
    /\ sticky = EmptyMap
    /\ RegistryUnused /\ CooldownProcsUnused /\ LoadProcsUnused /\ RelayUnused

limiterFrame == <<Cooldowns, Channels, Rule, Match, ModelGroup, db, sticky, track, setter,
                  sweep, lock, loader, reader, config, rq>>

LimiterTick ==
    /\ now < MaxLimiterTime
    /\ now' = now + 1
    /\ UNCHANGED <<call, limiterFrame>>

\* one Request call, from Lock to the deferred Unlock
LimiterRequest ==
    /\ \E key \in LimiterKeys :
          /\ Len(call.accepted[key]) < MaxAccepted
          /\ LET r == Request(call.store, key, call.maxRequestNum, call.duration, now)
             IN  call' = [call EXCEPT !.store = r.store, !.key = key, !.ok = r.ok,
                                      !.accepted[key] = IF r.ok THEN Append(@, now) ELSE @]
    /\ UNCHANGED <<now, limiterFrame>>

\* the ticker fires: doCleanup reads the clock
LimiterCleanupBegin ==
    /\ call.cleanup.pc = "idle"
    /\ call' = [call EXCEPT !.cleanup = [pc |-> "shards", nowTime |-> now, i |-> 0]]
    /\ UNCHANGED <<now, limiterFrame>>

\* doCleanup locks, cleans and unlocks the next shard that holds a key
LimiterCleanupShard ==
    /\ call.cleanup.pc = "shards"
    /\ LET pending == {getShard(key) : key \in DOMAIN call.store}
                        \cap (call.cleanup.i)..(shardCount - 1)
       IN  /\ pending # {}
           /\ LET shard == CHOOSE x \in pending : \A y \in pending : x <= y
              IN  call' = [call EXCEPT
                             !.store = CleanupShard(call.store, shard, call.cleanup.nowTime,
                                                    call.expirationSeconds),
                             !.cleanup.i = shard + 1]
    /\ UNCHANGED <<now, limiterFrame>>

\* doCleanup has passed the last shard
LimiterCleanupEnd ==
    /\ call.cleanup.pc = "shards"
    /\ {getShard(key) : key \in DOMAIN call.store}
          \cap (call.cleanup.i)..(shardCount - 1) = {}
    /\ call' = [call EXCEPT !.cleanup = IdleCleanup]
    /\ UNCHANGED <<now, limiterFrame>>

NextLimiter ==
    \/ LimiterTick
    \/ LimiterRequest
    \/ LimiterCleanupBegin
    \/ LimiterCleanupShard
    \/ LimiterCleanupEnd

SpecLimiter == InitLimiter /\ [][NextLimiter]_vars

\* the accepted requests of a key with timestamps in the window of call.duration seconds
\* that starts at w
AcceptedInWindow(key, w) ==
    {k \in DOMAIN call.accepted[key] :
        w <= call.accepted[key][k] /\ call.accepted[key][k] < w + call.duration}

\* a Request step changes nothing of the other keys
OtherKeysUntouched ==
    \A key \in LimiterKeys :
        (call'.accepted[key] # call.accepted[key]) =>
            \A other \in LimiterKeys \ {key} :
                /\ call'.accepted[other] = call.accepted[other]
                /\ (other \in DOMAIN call.store) = (other \in DOMAIN call'.store)
                /\ other \in DOMAIN call.store => call'.store[other] = call.store[other]

\* C40: for any key, maxRequestNum >= 1, duration and expirationDuration, under every
\* interleaving of Request calls and doCleanup, the Request calls that return true with
\* timestamps inside any window of duration seconds never number more than maxRequestNum,
\* and Request calls on different keys never affect each other.
C40_WindowNeverExceeded ==
    /\ [](\A key \in LimiterKeys, w \in 0..MaxLimiterTime :
            Cardinality(AcceptedInWindow(key, w)) <= call.maxRequestNum)
    /\ [][OtherKeysUntouched]_vars

====
